---------------------------- MODULE Spec2Model ----------------------------
(***************************************************************************)
(* Request dispatch and proxy bridge of the TypeScript WAS:                *)
(*   - Router / Route        (src/src/core/Router.ts, src/src/core/Route.ts)*)
(*   - ServletContainer      (src/unnamed/part_005)                        *)
(*   - GenericServlet        (src/src/servlet/HttpServlet.ts)              *)
(*   - SpringBridge          (src/unnamed/part_004)                        *)
(*                                                                         *)
(* Strings the code inspects character by character (route templates,      *)
(* request paths, url patterns) are sequences of one-character strings.    *)
(* Every async method is cut at its await points: one action runs from a   *)
(* resumption to the next await, as the single-threaded event loop does.   *)
(***************************************************************************)
EXTENDS Integers, Sequences, FiniteSets, TLC

VARIABLES
  \* ---- Router -----------------------------------------------------------
  routes,          \* Router.routes: sequence of Route objects
  middlewares,     \* Router.middlewares: sequence of middleware behaviours
  rres,            \* outcome of the last Router.handle call
  \* ---- ServletContainer and its servlets ---------------------------------
  servletMappings, \* Map urlPattern -> ServletMapping, in insertion order
  servletsByName,  \* Map servletName -> ServletMapping
  isStarted,       \* ServletContainer.isStarted
  totalRequests,   \* ServletContainer.totalRequests
  config,          \* GenericServlet.config # null, per servlet instance
  life,            \* per servlet instance: what its lifecycle methods did
  lc,              \* the start/stop/register/unregister call in progress
  creq,            \* the handleRequest call in progress or last finished
  \* ---- SpringBridge ------------------------------------------------------
  isSpringReady,       \* SpringBridge.isSpringReady
  springMetadata,      \* SpringBridge.springMetadata (NoDoc = null)
  healthCheckInterval, \* SpringBridge.healthCheckInterval # null
  phase,               \* which of start()/stop() the caller has completed
  bstart,              \* the start() call in progress or last finished
  tick,                \* the interval callbacks in flight or last finished
  preq,                \* the proxyRequest call in progress or last finished
  \* ---- Server ------------------------------------------------------------
  httpServer,          \* Server.httpServer # null: the server is listening
  sreq,                \* the request callback in progress or last finished
  springBridge,        \* Server.springBridge # null
  springEnabled,       \* Server.springEnabled
  sstart,              \* where Server.setupSpringBridge is
  \* ---- SpringBridge.matchPath -------------------------------------------
  mcall,               \* one matchPath(pattern, path) call and its result
  \* ---- Route.match --------------------------------------------------------
  rmatch               \* one new Route(template).match(path) and its result

routerVars    == <<routes, middlewares, rres>>
containerVars == <<servletMappings, servletsByName, isStarted, totalRequests,
                   config, life, lc, creq>>
bridgeVars    == <<isSpringReady, springMetadata, healthCheckInterval, phase,
                   bstart, tick, preq>>
springVars    == <<springBridge, springEnabled, sstart>>
serverVars    == <<httpServer, sreq, springVars>>
matchVars     == <<mcall, rmatch>>
vars          == <<routerVars, containerVars, bridgeVars, serverVars,
                   matchVars>>

-----------------------------------------------------------------------------
(* Bounds of the model                                                     *)

MaxRoutes == 3        \* routes registered on one Router
MaxMiddlewares == 1   \* middleware registered on one Router
MaxChainRoutes == 1   \* routes in the middleware chain model
MaxChain == 2         \* middleware in the middleware chain model

-----------------------------------------------------------------------------
(* Generic helpers                                                         *)

Max(S) == CHOOSE x \in S : \A y \in S : y <= x

Drop(s, k) == SubSeq(s, k + 1, Len(s))

StartsWith(s, p) == Len(p) <= Len(s) /\ SubSeq(s, 1, Len(p)) = p

-----------------------------------------------------------------------------
(* Route: template compilation and matching  (src/src/core/Route.ts)       *)

SLASH == "/"
COLON == ":"
BSLASH == "\\"
GROUP == "([^\\/]+)"   \* one token standing for the capture group text
DOT == "."             \* unescaped in a regex source: any one character

\* path.replace(/\//g, '\\/')
RECURSIVE EscapeSlashes(_)
EscapeSlashes(p) ==
  IF p = <<>> THEN <<>>
  ELSE IF Head(p) = SLASH THEN <<BSLASH, SLASH>> \o EscapeSlashes(Tail(p))
       ELSE <<Head(p)>> \o EscapeSlashes(Tail(p))

\* length of the longest prefix of s made of characters other than "/"
RECURSIVE NonSlashRun(_)
NonSlashRun(s) ==
  IF s = <<>> \/ Head(s) = SLASH THEN 0 ELSE 1 + NonSlashRun(Tail(s))

\* .replace(/:([^\/]+)/g, ...) over the escaped text: the regex source with
\* every match replaced by GROUP.
RECURSIVE ReplaceParams(_)
ReplaceParams(e) ==
  IF e = <<>> THEN <<>>
  ELSE IF Head(e) = COLON /\ NonSlashRun(Tail(e)) > 0
       THEN <<GROUP>> \o ReplaceParams(Drop(Tail(e), NonSlashRun(Tail(e))))
       ELSE <<Head(e)>> \o ReplaceParams(Tail(e))

\* the paramName of every match of /:([^\/]+)/g, in order
RECURSIVE CollectParamNames(_)
CollectParamNames(e) ==
  IF e = <<>> THEN <<>>
  ELSE IF Head(e) = COLON /\ NonSlashRun(Tail(e)) > 0
       THEN <<SubSeq(Tail(e), 1, NonSlashRun(Tail(e)))>>
              \o CollectParamNames(Drop(Tail(e), NonSlashRun(Tail(e))))
       ELSE CollectParamNames(Tail(e))

\* new RegExp(source): "\/" is the literal "/", GROUP is a capture group,
\* "." stays the regex atom DOT (createPattern escapes nothing but "/"),
\* every other character of the templates used here is a literal.
RECURSIVE RegexTokens(_)
RegexTokens(src) ==
  IF src = <<>> THEN <<>>
  ELSE IF Head(src) = BSLASH /\ Len(src) >= 2
       THEN <<src[2]>> \o RegexTokens(Drop(src, 2))
       ELSE <<Head(src)>> \o RegexTokens(Tail(src))

createPattern(path) ==
  [pattern    |-> RegexTokens(ReplaceParams(EscapeSlashes(path))),
   paramNames |-> CollectParamNames(EscapeSlashes(path))]

\* RegExp.exec of the anchored pattern ^...$ : greedy groups with
\* backtracking; caps are the captured groups in order.
RECURSIVE RegexExec(_, _)
RegexExec(toks, s) ==
  IF toks = <<>> THEN [ok |-> s = <<>>, caps |-> <<>>]
  ELSE IF Head(toks) = GROUP
       THEN LET ks == {k \in 1..NonSlashRun(s) :
                          RegexExec(Tail(toks), Drop(s, k)).ok}
            IN IF ks = {} THEN [ok |-> FALSE, caps |-> <<>>]
               ELSE [ok   |-> TRUE,
                     caps |-> <<SubSeq(s, 1, Max(ks))>>
                                \o RegexExec(Tail(toks), Drop(s, Max(ks))).caps]
       ELSE IF s # <<>> /\ (Head(toks) = DOT \/ Head(s) = Head(toks))
            THEN RegexExec(Tail(toks), Tail(s))
            ELSE [ok |-> FALSE, caps |-> <<>>]

\* new Route(method, path, handler)
Route(method, path, handler) ==
  [method |-> method, path |-> path, handler |-> handler,
   pattern |-> createPattern(path).pattern,
   paramNames |-> createPattern(path).paramNames]

\* Route.match(path): matched = FALSE is the null result; params is the list
\* of assignments params[name] = value in the order the loop makes them.
match(route, path) ==
  LET m == RegexExec(route.pattern, path)
  IN [matched |-> m.ok,
      params  |-> IF m.ok
                  THEN [i \in 1..Len(route.paramNames) |->
                          <<route.paramNames[i], m.caps[i]>>]
                  ELSE <<>>]

-----------------------------------------------------------------------------
(* Router  (src/src/core/Router.ts)                                        *)

Methods == {"GET", "POST"}

\* route templates registered in the model: /u/:a  /u/:b  /u/x  /:a/x
Templates == { <<"/", "u", "/", ":", "a">>, <<"/", "u", "/", ":", "b">>,
               <<"/", "u", "/", "x">>,      <<"/", ":", "a", "/", "x">> }

\* request paths: /u/x  /u/y  /y/x  /u
Paths == { <<"/", "u", "/", "x">>, <<"/", "u", "/", "y">>,
           <<"/", "y", "/", "x">>, <<"/", "u">> }

\* request urls of the middleware chain model: /u/x  /u  /u/%78  /u/x?q
Urls == { <<"/", "u", "/", "x">>, <<"/", "u">>,
          <<"/", "u", "/", "%", "7", "8">>,
          <<"/", "u", "/", "x", "?", "q">> }

\* What a registered middleware does, as the list of its steps:
\*   next       calls next() and returns
\*   halt       returns without calling next() and without a response
\*   respond    sends a response and returns without calling next()
\*   sendNext   sends a response, then calls next()
\*   twice      calls next() two times
\*   throw      throws before anything else
\*   awaitNext  awaits, then calls next()
\*   nextThrow  calls next(), then throws
\*   awaitThrow awaits, then throws
MiddlewareKinds == {"next", "halt", "respond", "sendNext", "twice", "throw",
                    "awaitNext", "nextThrow", "awaitThrow"}

MiddlewareOps(kind) ==
  CASE kind = "next"       -> <<"next">>
    [] kind = "halt"       -> <<>>
    [] kind = "respond"    -> <<"send">>
    [] kind = "sendNext"   -> <<"send", "next">>
    [] kind = "twice"      -> <<"next", "next">>
    [] kind = "throw"      -> <<"throw">>
    [] kind = "awaitNext"  -> <<"await", "next">>
    [] kind = "nextThrow"  -> <<"next", "throw">>
    [] kind = "awaitThrow" -> <<"await", "throw">>

\* What the matched route handler does on this request:
\*   ok sends its response; throw throws at once; asyncOk awaits, then sends;
\*   asyncThrow awaits, then throws; sendThrow sends, then throws.
\* The handler registerSpringRoutes creates is the kind proxy: it awaits the
\* session, awaits springBridge.proxyRequest, and the response is the one
\* proxyRequest wrote
HandlerKinds == {"ok", "throw", "asyncOk", "asyncThrow", "sendThrow"}

HandlerOps(kind) ==
  CASE kind = "ok"         -> <<"send">>
    [] kind = "throw"      -> <<"throw">>
    [] kind = "asyncOk"    -> <<"await", "send">>
    [] kind = "asyncThrow" -> <<"await", "throw">>
    [] kind = "sendThrow"  -> <<"send", "throw">>
    [] kind = "proxy"      -> <<"await", "await", "sendProxy">>

\* a Request.path that percent-decodes the pathname (%78 is x)
RECURSIVE RequestPath_Decoded(_)
RequestPath_Decoded(url) ==
  IF url = <<>> \/ Head(url) = "?" THEN <<>>
  ELSE IF Len(url) >= 3 /\ SubSeq(url, 1, 3) = <<"%", "7", "8">>
       THEN <<"x">> \o RequestPath_Decoded(SubSeq(url, 4, Len(url)))
       ELSE <<Head(url)>> \o RequestPath_Decoded(Tail(url))

\* Request.path: the pathname of the parsed url, the text before "?", with
\* its percent-encoding left as it is
RECURSIVE RequestPath(_)
RequestPath(url) ==
  IF url = <<>> \/ Head(url) = "?" THEN <<>>
  ELSE <<Head(url)>> \o RequestPath(Tail(url))

NoBody == [method |-> "-", path |-> <<>>]

\* one function of the chain (a middleware, or the routing step that handle
\* appends): st is new / run / wait (at an await) / ret / thrown, ip the
\* next step, nextCalled the flag of its next closure
NewFrame == [st |-> "new", ip |-> 1, nextCalled |-> FALSE, nextCalls |-> 0]

\* the function handle appends to the chain: async (req, res, next) => ...
RoutingStep == [id |-> 0, kind |-> "routing"]

NoResult == [pc |-> "idle", method |-> "-", url |-> <<>>, path |-> <<>>,
             handlerKind |-> "-", chain |-> <<>>, frames |-> <<>>,
             stack |-> <<>>, started |-> <<>>, nroutes |-> 0,
             routed |-> FALSE, routings |-> 0, invoked |-> <<>>,
             middlewareCompleted |-> FALSE, finished |-> FALSE, status |-> 0,
             body |-> NoBody, sentBy |-> <<>>, threw |-> 0, nextErrors |-> 0,
             caught |-> 0, unhandled |-> 0]

\* Router.findRoute, the loop from index i on: the first route whose method
\* equals the request method and whose match() is not null.
RECURSIVE findRouteFrom(_, _, _, _)
findRouteFrom(rs, i, method, path) ==
  IF i > Len(rs) THEN [found |-> FALSE, index |-> 0, params |-> <<>>]
  ELSE IF rs[i].method = method /\ match(rs[i], path).matched
       THEN [found |-> TRUE, index |-> i, params |-> match(rs[i], path).params]
       ELSE findRouteFrom(rs, i + 1, method, path)

\* a findRoute that keeps scanning and returns the last match
findRoute_LastWins(rs, method, path) ==
  LET ms == {i \in 1..Len(rs) :
               rs[i].method = method /\ match(rs[i], path).matched}
  IN IF ms = {} THEN [found |-> FALSE, index |-> 0, params |-> <<>>]
     ELSE [found |-> TRUE, index |-> Max(ms),
           params |-> match(rs[Max(ms)], path).params]

findRoute(rs, method, path) == findRouteFrom(rs, 1, method, path)

\* Response.send: the first send writes the status line and ends the
\* response; a later one finds the headers sent and changes neither.
\* sentBy lists who called send: middleware, handler, 404, 500
send(r, code, body, sender) ==
  [r EXCEPT !.sentBy = Append(@, sender), !.finished = TRUE,
            !.status = IF r.finished THEN @ ELSE code,
            !.body = IF r.finished THEN @ ELSE body]

\* the steps of function i of the chain of request r
Program(r, i) ==
  IF r.chain[i].kind = "routing"
  THEN <<"route">>
         \o (IF r.invoked # <<>> THEN HandlerOps(r.handlerKind)
             ELSE <<"send404">>)
         \o <<"complete">>
  ELSE MiddlewareOps(r.chain[i].kind)

Advance(r, i) == [r EXCEPT !.frames[i].ip = @ + 1]

\* function i throws: its promise is rejected.  Only the promise of the
\* first function is awaited (by handle); the executeMiddlewares promise of
\* every later one was dropped by next(), so its rejection is unhandled.
Throw(r, i, fromNext) ==
  [r EXCEPT !.frames[i].st = "thrown", !.stack = Tail(@),
            !.threw = @ + 1,
            !.nextErrors = IF fromNext THEN @ + 1 ELSE @,
            !.unhandled = IF i > 1 THEN @ + 1 ELSE @]

\* an executeMiddlewares that goes on to the next middleware when the
\* current one returned without calling next()
middlewareReturned_FallThrough(r, i) ==
  LET r1 == [r EXCEPT !.frames[i].st = "ret", !.stack = Tail(@)]
  IN IF ~r.frames[i].nextCalled /\ i + 1 <= Len(r.chain)
     THEN [r1 EXCEPT !.frames[i + 1].st = "run",
                     !.stack = <<i + 1>> \o @,
                     !.started = Append(@, r.chain[i + 1].id)]
     ELSE r1

\* Router.executeMiddlewares after `await middleware(request, response,
\* next)`: it returns, whether or not next() was called
middlewareReturned(r, i) ==
  [r EXCEPT !.frames[i].st = "ret", !.stack = Tail(@)]

\* Router.executeMiddlewares(request, response, middlewares, index) up to
\* the call of middlewares[index]
executeMiddlewares(r, index) ==
  IF index > Len(r.chain) THEN r
  ELSE [r EXCEPT !.frames[index].st = "run",
                 !.stack = <<index>> \o @,
                 !.started = Append(@, r.chain[index].id)]

\* a next closure without the nextCalled guard
next_NoGuard(r, i) ==
  executeMiddlewares(
    [r EXCEPT !.frames[i].nextCalled = TRUE, !.frames[i].nextCalls = @ + 1,
              !.frames[i].ip = @ + 1], i + 1)

\* the closure next of executeMiddlewares, called by function i
next(r, i) ==
  IF r.frames[i].nextCalled
  THEN Throw([r EXCEPT !.frames[i].nextCalls = @ + 1], i, TRUE)
  ELSE executeMiddlewares(
         [r EXCEPT !.frames[i].nextCalled = TRUE,
                   !.frames[i].nextCalls = @ + 1,
                   !.frames[i].ip = @ + 1], i + 1)

\* Router.handle404
handle404(r) ==
  send(r, 404, [method |-> r.method, path |-> r.path], "404")

\* Router.executeRouting up to the call of the matched handler;
\* handlerKind is what that handler does on this request
executeRouting(r, i, handlerKind) ==
  LET m == findRoute(routes, r.method, r.path)
  IN [Advance(r, i) EXCEPT
        !.routed = TRUE, !.routings = @ + 1, !.nroutes = Len(routes),
        !.handlerKind = IF m.found THEN handlerKind ELSE @,
        !.invoked = IF m.found THEN Append(@, routes[m.index].handler) ELSE @]

\* one step of the function on top of the call stack
Exec(r, handlerKind) ==
  LET i    == Head(r.stack)
      prog == Program(r, i)
      ip   == r.frames[i].ip
  IN IF ip > Len(prog) THEN middlewareReturned(r, i)
     ELSE CASE prog[ip] = "next"     -> next(r, i)
            [] prog[ip] = "send"     ->
                 Advance(IF r.chain[i].kind = "routing"
                         THEN send(r, 200, NoBody, "handler")
                         ELSE send(r, 403, NoBody, "middleware"), i)
            [] prog[ip] = "throw"    -> Throw(r, i, FALSE)
            [] prog[ip] = "await"    ->
                 [Advance(r, i) EXCEPT !.frames[i].st = "wait",
                                       !.stack = Tail(@)]
            [] prog[ip] = "route"    -> executeRouting(r, i, handlerKind)
            [] prog[ip] = "sendProxy" ->
                 Advance(send(r, preq.status, NoBody, "handler"), i)
            [] prog[ip] = "send404"  -> Advance(handle404(r), i)
            [] prog[ip] = "complete" ->
                 Advance([r EXCEPT !.middlewareCompleted = TRUE], i)

\* run to completion: until every function on the call stack has returned,
\* thrown or reached an await
RECURSIVE RunSync(_, _)
RunSync(r, handlerKind) ==
  IF r.stack = <<>> THEN r ELSE RunSync(Exec(r, handlerKind), handlerKind)

\* handle has returned and no function of its chain is at an await
Settled(r) ==
  /\ r.pc = "done"
  /\ \A i \in DOMAIN r.frames : r.frames[i].st \in {"new", "ret", "thrown"}

\* the continuation of handle is queued as a microtask: it runs before any
\* other call from outside reaches the router
MicrotaskPending ==
  rres.pc = "running" /\ rres.frames[1].st \in {"ret", "thrown"}

\* rres records the most recent request only: a registration forgets a
\* request that is over.
ForgetResult == IF Settled(rres) THEN NoResult ELSE rres

\* a use that puts the middleware in front of the list
use_Prepend(kind) ==
  /\ middlewares' = <<[id |-> Len(middlewares) + 1, kind |-> kind]>>
                      \o middlewares
  /\ rres' = ForgetResult
  /\ UNCHANGED routes

\* Router.get/post/... -> addRoute: append; the handler passed in is a new
\* function, identified by the position of its registration.
addRoute(method, path) ==
  /\ routes' = Append(routes, Route(method, path, Len(routes) + 1))
  /\ rres' = ForgetResult
  /\ UNCHANGED middlewares

\* Router.use: append; the middleware passed in is identified by the
\* position of its registration.
use(kind) ==
  /\ middlewares' = Append(middlewares,
                           [id |-> Len(middlewares) + 1, kind |-> kind])
  /\ rres' = ForgetResult
  /\ UNCHANGED routes

\* Router.handle up to its await: with middleware, the chain is the copy of
\* this.middlewares plus the routing step and executeMiddlewares starts it;
\* without, executeRouting is called directly.
handle(method, url, handlerKind) ==
  /\ rres.pc \in {"idle", "done"}
  /\ LET chain == IF Len(middlewares) > 0
                  THEN middlewares \o <<RoutingStep>>
                  ELSE <<RoutingStep>>
         r0 == [NoResult EXCEPT
                  !.pc = "running", !.method = method, !.url = url,
                  !.path = RequestPath(url),
                  !.chain = chain,
                  !.frames = [i \in 1..Len(chain) |-> NewFrame]]
     IN rres' = RunSync(executeMiddlewares(r0, 1), handlerKind)
  /\ UNCHANGED <<routes, middlewares>>

\* a function of the chain resumes after its await
resumeAwait(i, handlerKind) ==
  /\ i \in 1..Len(rres.frames)
  /\ rres.frames[i].st = "wait"
  /\ rres' = RunSync([rres EXCEPT !.frames[i].st = "run", !.stack = <<i>>],
                     handlerKind)
  /\ UNCHANGED <<routes, middlewares>>

\* Router.handle resumes after its await: it returns, or its catch block
\* logs and answers 500 unless response.finished
handleResume ==
  /\ rres.pc = "running"
  /\ rres.frames[1].st \in {"ret", "thrown"}
  /\ rres' = IF rres.frames[1].st = "thrown"
             THEN LET r1 == [rres EXCEPT !.pc = "done", !.caught = @ + 1]
                  IN IF ~rres.finished THEN send(r1, 500, NoBody, "500")
                     ELSE r1
             ELSE [rres EXCEPT !.pc = "done"]
  /\ UNCHANGED <<routes, middlewares>>

RouterInit ==
  /\ routes = <<>>
  /\ middlewares = <<>>
  /\ rres = NoResult

RouterFrame == UNCHANGED <<containerVars, bridgeVars, serverVars, matchVars>>

\* the middleware and handler behaviours of the route table model
RouterKinds == {"next", "halt"}

\* the route table model: many routes, middleware that calls next() or not,
\* handlers that answer at once
RouterNext ==
  \/ RouterFrame /\ Len(routes) < MaxRoutes /\ ~MicrotaskPending
       /\ \E m \in Methods, t \in Templates : addRoute(m, t)
  \/ RouterFrame /\ Len(middlewares) < MaxMiddlewares /\ ~MicrotaskPending
       /\ \E k \in RouterKinds : use(k)
  \/ RouterFrame /\ \E m \in Methods, p \in Paths : handle(m, p, "ok")
  \/ RouterFrame /\ handleResume

\* the route of the middleware chain model: GET /u/x
ChainTemplates == { <<"/", "u", "/", "x">> }

\* the middleware chain model: few routes, every middleware and handler
\* behaviour
ChainNext ==
  \/ RouterFrame /\ Len(routes) < MaxChainRoutes /\ ~MicrotaskPending
       /\ \E t \in ChainTemplates : addRoute("GET", t)
  \/ RouterFrame /\ Len(middlewares) < MaxChain /\ ~MicrotaskPending
       /\ \E k \in MiddlewareKinds : use(k)
  \/ RouterFrame /\ \E u \in Urls, h \in HandlerKinds : handle("GET", u, h)
  \/ RouterFrame /\ \E i \in DOMAIN rres.frames, h \in HandlerKinds :
                          resumeAwait(i, h)
  \/ RouterFrame /\ handleResume

-----------------------------------------------------------------------------
(* ServletContainer  (src/unnamed/part_005)  and GenericServlet            *)
(* (src/src/servlet/HttpServlet.ts)                                        *)

Servlets == {"s1", "s2"}          \* servlet instances handed to the container
\* config.servletName: every instance is registered under its own name
ServletNameOf(servlet) == IF servlet = "s1" THEN "n1" ELSE "n2"
\* url patterns: /a  /a/b  /ab
UrlPatterns == { <<"/", "a">>, <<"/", "a", "/", "b">>, <<"/", "a", "b">> }
\* request paths: /a  /a/b/c  /ab  /x
RequestPaths == { <<"/", "a">>, <<"/", "a", "/", "b", "/", "c">>,
                  <<"/", "a", "b">>, <<"/", "x">> }
\* loadOnStartup: <<>> is undefined, <<n>> is the number n
LoadOnStartups == { <<>>, <<1>>, <<2>> }
Slots == {1, 2}                   \* handleRequest calls that can be in flight

MaxRequests == 1                  \* cap on ServletContainer.totalRequests

NoServlet == "none"

IdleCall == [op |-> "none", pc |-> "done", cur |-> NoServlet, todo |-> <<>>,
             log |-> <<>>, failed |-> {}, arg |-> <<>>, result |-> "ok"]

IdleRequest == [pc |-> "idle", path |-> <<>>, servlet |-> NoServlet,
                name |-> "-", urlPattern |-> <<>>, result |-> "none", status |-> 0,
                headersSent |-> FALSE, serviced |-> 0, servicedDead |-> FALSE,
                threw |-> FALSE, written |-> 0, errorServlet |-> "-"]

\* the mapping stored under urlPattern, as a set (empty: not mapped)
MappingsAt(maps, urlPattern) ==
  {maps[i] : i \in {j \in 1..Len(maps) : maps[j].urlPattern = urlPattern}}

RegisteredServlets == {servletMappings[i].servlet : i \in 1..Len(servletMappings)}

\* Array.prototype.sort is stable: insert x behind every element that does
\* not compare greater.  (a.loadOnStartup || 0) - (b.loadOnStartup || 0)
RECURSIVE InsertByLoadOnStartup(_, _)
InsertByLoadOnStartup(x, sorted) ==
  IF sorted = <<>> THEN <<x>>
  ELSE IF Head(sorted).loadOnStartup[1] - x.loadOnStartup[1] > 0
       THEN <<x>> \o sorted
       ELSE <<Head(sorted)>> \o InsertByLoadOnStartup(x, Tail(sorted))

RECURSIVE SortByLoadOnStartup(_)
SortByLoadOnStartup(ms) ==
  IF ms = <<>> THEN <<>>
  ELSE InsertByLoadOnStartup(ms[Len(ms)],
                             SortByLoadOnStartup(SubSeq(ms, 1, Len(ms) - 1)))

HasLoadOnStartup(m) == m.loadOnStartup # <<>>

\* startup servlets left in registration order (the sort dropped)
startupServlets_Unsorted(maps) == SelectSeq(maps, HasLoadOnStartup)

\* start(): the mappings with loadOnStartup !== undefined, sorted ascending
startupServlets(maps) == SortByLoadOnStartup(SelectSeq(maps, HasLoadOnStartup))

\* prefixMatches.sort((a, b) => b.pattern.length - a.pattern.length)
RECURSIVE InsertByPatternLength(_, _)
InsertByPatternLength(x, sorted) ==
  IF sorted = <<>> THEN <<x>>
  ELSE IF Len(x.urlPattern) - Len(Head(sorted).urlPattern) > 0
       THEN <<x>> \o sorted
       ELSE <<Head(sorted)>> \o InsertByPatternLength(x, Tail(sorted))

RECURSIVE SortByPatternLength(_)
SortByPatternLength(ms) ==
  IF ms = <<>> THEN <<>>
  ELSE InsertByPatternLength(ms[Len(ms)],
                             SortByPatternLength(SubSeq(ms, 1, Len(ms) - 1)))

\* a findMatchingServlet that returns the first prefix match in
\* registration order instead of the longest
findMatchingServlet_FirstPrefix(maps, requestPath) ==
  LET IsPrefix(m) == StartsWith(requestPath, m.urlPattern)
      prefixMatches == SelectSeq(maps, IsPrefix)
  IN IF prefixMatches = <<>> THEN <<>> ELSE <<prefixMatches[1]>>

\* ServletContainer.findMatchingServlet: <<>> is null, <<m>> the mapping
findMatchingServlet(maps, requestPath) ==
  LET IsExact(m)  == requestPath = m.urlPattern
      IsPrefix(m) == StartsWith(requestPath, m.urlPattern)
      exact         == SelectSeq(maps, IsExact)
      prefixMatches == SelectSeq(maps, IsPrefix)
  IN IF exact # <<>> THEN <<exact[1]>>
     ELSE IF Len(prefixMatches) > 0
          THEN <<SortByPatternLength(prefixMatches)[1]>>
          ELSE <<>>

\* ServletContainer.isServletInitialized: getServletConfig() !== null
isServletInitialized(servlet) == config[servlet]

\* GenericServlet.init up to its await: this.config = config
InitCalled(servlet) == [config EXCEPT ![servlet] = TRUE]

\* ServletContainer.initializeServlet / servlet.init completing
InitCompleted(servlet, ok) ==
  IF ok THEN [life EXCEPT ![servlet].initDone = TRUE] ELSE life

\* servlet.destroy() completing
DestroyCompleted(servlet, ok) ==
  IF ok THEN [life EXCEPT ![servlet] = [initDone |-> FALSE, destroyed |-> TRUE]]
  ELSE life

\* servletMappings with mapping.requestCount++ on the mapping of servlet
CountRequest(maps, servlet) ==
  [i \in 1..Len(maps) |->
     IF maps[i].servlet = servlet
     THEN [maps[i] EXCEPT !.requestCount = @ + 1]
     ELSE maps[i]]

\* servletMappings.delete(urlPattern)
DeleteMapping(maps, urlPattern) ==
  LET Keep(m) == m.urlPattern # urlPattern IN SelectSeq(maps, Keep)

\* lc and creq record the most recent call only: a new call of the other
\* kind forgets the finished one.
ForgetRequests ==
  [k \in Slots |-> IF creq[k].pc = "done" THEN IdleRequest ELSE creq[k]]

ForgetCall == IF lc.pc = "done" THEN IdleCall ELSE lc

\* no call on the container is between two of its awaits
Quiet == lc.pc = "done" /\ \A k \in Slots : creq[k].pc \in {"idle", "done"}

\* ---- start() -------------------------------------------------------------
\* a start() without the isStarted test
start_NoStartedCheck ==
  /\ lc.pc = "done"
  /\ LET todo == startupServlets(servletMappings)
     IN IF todo = <<>>
        THEN /\ isStarted' = TRUE
             /\ lc' = [IdleCall EXCEPT !.op = "start"]
             /\ UNCHANGED config
        ELSE /\ config' = InitCalled(todo[1].servlet)
             /\ lc' = [IdleCall EXCEPT !.op = "start", !.pc = "awaitInit",
                                       !.cur = todo[1].servlet,
                                       !.todo = Tail(todo),
                                       !.log = <<todo[1].servlet>>]
             /\ UNCHANGED isStarted
  /\ creq' = ForgetRequests
  /\ UNCHANGED <<servletMappings, servletsByName, totalRequests, life>>

\* from the call to the first await (or to the return, with nothing to init)
start ==
  /\ lc.pc = "done"
  /\ IF isStarted
     THEN /\ lc' = [IdleCall EXCEPT !.op = "start", !.result = "error"]
          /\ UNCHANGED <<isStarted, config>>
     ELSE LET todo == startupServlets(servletMappings)
          IN IF todo = <<>>
             THEN /\ isStarted' = TRUE
                  /\ lc' = [IdleCall EXCEPT !.op = "start"]
                  /\ UNCHANGED config
             ELSE /\ config' = InitCalled(todo[1].servlet)
                  /\ lc' = [IdleCall EXCEPT !.op = "start", !.pc = "awaitInit",
                                            !.cur = todo[1].servlet,
                                            !.todo = Tail(todo),
                                            !.log = <<todo[1].servlet>>]
                  /\ UNCHANGED isStarted
  /\ creq' = ForgetRequests
  /\ UNCHANGED <<servletMappings, servletsByName, totalRequests, life>>

\* a start() whose loop swallows an init failure and goes on
startInitDone_IgnoreFailure(ok) ==
  /\ lc.op = "start" /\ lc.pc = "awaitInit"
  /\ life' = InitCompleted(lc.cur, ok)
  /\ IF lc.todo = <<>>
     THEN /\ isStarted' = TRUE
          /\ lc' = [lc EXCEPT !.pc = "done", !.result = "ok", !.cur = NoServlet,
                     !.failed = IF ok THEN @ ELSE @ \cup {lc.cur}]
          /\ UNCHANGED config
     ELSE /\ config' = InitCalled(lc.todo[1].servlet)
          /\ lc' = [lc EXCEPT !.cur = lc.todo[1].servlet,
                     !.todo = Tail(lc.todo),
                     !.log = Append(lc.log, lc.todo[1].servlet),
                     !.failed = IF ok THEN @ ELSE @ \cup {lc.cur}]
          /\ UNCHANGED isStarted
  /\ UNCHANGED <<servletMappings, servletsByName, totalRequests, creq>>

\* await this.initializeServlet(mapping) resumes: next mapping, or the end of
\* the loop, or the catch block
startInitDone(ok) ==
  /\ lc.op = "start" /\ lc.pc = "awaitInit"
  /\ life' = InitCompleted(lc.cur, ok)
  /\ IF ~ok
     THEN /\ lc' = [lc EXCEPT !.pc = "done", !.result = "error",
                              !.failed = {lc.cur}, !.cur = NoServlet]
          /\ UNCHANGED <<isStarted, config>>
     ELSE IF lc.todo = <<>>
          THEN /\ isStarted' = TRUE
               /\ lc' = [lc EXCEPT !.pc = "done", !.result = "ok",
                                   !.cur = NoServlet]
               /\ UNCHANGED config
          ELSE /\ config' = InitCalled(lc.todo[1].servlet)
               /\ lc' = [lc EXCEPT !.cur = lc.todo[1].servlet,
                                   !.todo = Tail(lc.todo),
                                   !.log = Append(lc.log, lc.todo[1].servlet)]
               /\ UNCHANGED isStarted
  /\ UNCHANGED <<servletMappings, servletsByName, totalRequests, creq>>

\* ---- stop() --------------------------------------------------------------
stop ==
  /\ lc.pc = "done"
  /\ IF ~isStarted
     THEN /\ lc' = [IdleCall EXCEPT !.op = "stop", !.arg = <<"not started">>]
          /\ UNCHANGED isStarted
     ELSE IF servletMappings = <<>>
          THEN /\ isStarted' = FALSE
               /\ lc' = [IdleCall EXCEPT !.op = "stop"]
          ELSE /\ lc' = [IdleCall EXCEPT !.op = "stop", !.pc = "awaitDestroy",
                                         !.cur = servletMappings[1].servlet,
                                         !.todo = Tail(servletMappings),
                                         !.log = <<servletMappings[1].servlet>>]
               /\ UNCHANGED isStarted
  /\ creq' = ForgetRequests
  /\ UNCHANGED <<servletMappings, servletsByName, totalRequests, config, life>>

\* a stop() without the inner try/catch: the first destroy failure ends it
stopDestroyDone_AbortOnFailure(ok) ==
  /\ lc.op = "stop" /\ lc.pc = "awaitDestroy"
  /\ life' = DestroyCompleted(lc.cur, ok)
  /\ IF ~ok
     THEN /\ lc' = [lc EXCEPT !.pc = "done", !.result = "error",
                              !.cur = NoServlet, !.failed = {lc.cur}]
          /\ UNCHANGED isStarted
     ELSE IF lc.todo = <<>>
          THEN /\ isStarted' = FALSE
               /\ lc' = [lc EXCEPT !.pc = "done", !.result = "ok",
                                   !.cur = NoServlet]
          ELSE /\ lc' = [lc EXCEPT !.cur = lc.todo[1].servlet,
                                   !.todo = Tail(lc.todo),
                                   !.log = Append(lc.log, lc.todo[1].servlet)]
               /\ UNCHANGED isStarted
  /\ UNCHANGED <<servletMappings, servletsByName, totalRequests, config, creq>>

\* await mapping.servlet.destroy() resumes, normally or in the inner catch
stopDestroyDone(ok) ==
  /\ lc.op = "stop" /\ lc.pc = "awaitDestroy"
  /\ life' = DestroyCompleted(lc.cur, ok)
  /\ IF lc.todo = <<>>
     THEN /\ isStarted' = FALSE
          /\ lc' = [lc EXCEPT !.pc = "done", !.result = "ok", !.cur = NoServlet,
                     !.failed = IF ok THEN @ ELSE @ \cup {lc.cur}]
     ELSE /\ lc' = [lc EXCEPT !.cur = lc.todo[1].servlet,
                     !.todo = Tail(lc.todo),
                     !.log = Append(lc.log, lc.todo[1].servlet),
                     !.failed = IF ok THEN @ ELSE @ \cup {lc.cur}]
          /\ UNCHANGED isStarted
  /\ UNCHANGED <<servletMappings, servletsByName, totalRequests, config, creq>>

\* ---- registerServlet() ---------------------------------------------------
\* a condition that initializes at once only a servlet with a loadOnStartup
initializeOnRegister_EagerOnly(loadOnStartup) ==
  isStarted /\ loadOnStartup # <<>>

\* `if (this.isStarted)` of registerServlet: initialize the new servlet now
initializeOnRegister(loadOnStartup) == isStarted

\* a registerServlet that checks the url pattern only, not the servlet name
registerServlet_NoNameCheck(urlPattern, servlet, servletName, loadOnStartup) ==
  /\ lc.pc = "done"
  /\ IF MappingsAt(servletMappings, urlPattern) # {}
     THEN /\ lc' = [IdleCall EXCEPT !.op = "register", !.result = "error",
                                    !.arg = urlPattern]
          /\ UNCHANGED <<servletMappings, servletsByName, config>>
     ELSE /\ servletMappings' =
               Append(servletMappings,
                      [urlPattern |-> urlPattern, servlet |-> servlet,
                       servletName |-> servletName,
                       loadOnStartup |-> loadOnStartup, requestCount |-> 0])
          /\ servletsByName' = servletsByName \cup
               {[servletName |-> servletName, urlPattern |-> urlPattern]}
          /\ IF isStarted
             THEN /\ config' = InitCalled(servlet)
                  /\ lc' = [IdleCall EXCEPT !.op = "register",
                                            !.pc = "awaitInit", !.cur = servlet,
                                            !.log = <<servlet>>,
                                            !.arg = urlPattern]
             ELSE /\ lc' = [IdleCall EXCEPT !.op = "register",
                                            !.arg = urlPattern]
                  /\ UNCHANGED config
  /\ creq' = ForgetRequests
  /\ UNCHANGED <<isStarted, totalRequests, life>>

registerServlet(urlPattern, servlet, servletName, loadOnStartup) ==
  /\ lc.pc = "done"
  /\ IF \/ MappingsAt(servletMappings, urlPattern) # {}
        \/ \E e \in servletsByName : e.servletName = servletName
     THEN /\ lc' = [IdleCall EXCEPT !.op = "register", !.result = "error",
                                    !.arg = urlPattern]
          /\ UNCHANGED <<servletMappings, servletsByName, config>>
     ELSE /\ servletMappings' =
               Append(servletMappings,
                      [urlPattern |-> urlPattern, servlet |-> servlet,
                       servletName |-> servletName,
                       loadOnStartup |-> loadOnStartup, requestCount |-> 0])
          /\ servletsByName' = servletsByName \cup
               {[servletName |-> servletName, urlPattern |-> urlPattern]}
          /\ IF initializeOnRegister(loadOnStartup)
             THEN /\ config' = InitCalled(servlet)
                  /\ lc' = [IdleCall EXCEPT !.op = "register",
                                            !.pc = "awaitInit", !.cur = servlet,
                                            !.log = <<servlet>>,
                                            !.arg = urlPattern]
             ELSE /\ lc' = [IdleCall EXCEPT !.op = "register",
                                            !.arg = urlPattern]
                  /\ UNCHANGED config
  /\ creq' = ForgetRequests
  /\ UNCHANGED <<isStarted, totalRequests, life>>

registerInitDone(ok) ==
  /\ lc.op = "register" /\ lc.pc = "awaitInit"
  /\ life' = InitCompleted(lc.cur, ok)
  /\ lc' = [lc EXCEPT !.pc = "done", !.cur = NoServlet,
                      !.result = IF ok THEN "ok" ELSE "error",
                      !.failed = IF ok THEN {} ELSE {lc.cur}]
  /\ UNCHANGED <<servletMappings, servletsByName, isStarted, totalRequests,
                 config, creq>>

\* ---- unregisterServlet() -------------------------------------------------
unregisterServlet(urlPattern) ==
  /\ lc.pc = "done"
  /\ IF MappingsAt(servletMappings, urlPattern) = {}
     THEN lc' = [IdleCall EXCEPT !.op = "unregister", !.result = "error",
                                 !.arg = urlPattern]
     ELSE LET m == CHOOSE x \in MappingsAt(servletMappings, urlPattern) : TRUE
          IN lc' = [IdleCall EXCEPT !.op = "unregister", !.pc = "awaitDestroy",
                                    !.cur = m.servlet, !.log = <<m.servlet>>,
                                    !.arg = urlPattern,
                                    !.todo = <<m>>]
  /\ creq' = ForgetRequests
  /\ UNCHANGED <<servletMappings, servletsByName, isStarted, totalRequests,
                 config, life>>

unregisterDestroyDone(ok) ==
  /\ lc.op = "unregister" /\ lc.pc = "awaitDestroy"
  /\ life' = DestroyCompleted(lc.cur, ok)
  /\ IF ok
     THEN /\ servletMappings' = DeleteMapping(servletMappings, lc.arg)
          /\ servletsByName' =
               {e \in servletsByName : e.servletName # lc.todo[1].servletName}
          /\ lc' = [lc EXCEPT !.pc = "done", !.result = "ok", !.cur = NoServlet,
                              !.todo = <<>>]
     ELSE /\ lc' = [lc EXCEPT !.pc = "done", !.result = "error",
                              !.failed = {lc.cur}, !.cur = NoServlet,
                              !.todo = <<>>]
          /\ UNCHANGED <<servletMappings, servletsByName>>
  /\ UNCHANGED <<isStarted, totalRequests, config, creq>>

\* ---- handleRequest() -----------------------------------------------------
\* matchedMapping.servlet.service(request, response) is called
ServiceCalled(r, servlet) ==
  [r EXCEPT !.pc = "awaitService", !.serviced = @ + 1,
            !.servicedDead = life[servlet].destroyed]

\* a catch block that answers 500 whether or not headers were sent
ServletError_AlwaysWrites(r) ==
  [r EXCEPT !.pc = "done", !.result = "handled", !.threw = TRUE,
            !.status = 500,
            !.written = @ + 1,
            !.errorServlet = r.name,
            !.headersSent = TRUE]

\* the catch block of handleRequest: unless response.headersSent, status 500
\* and a JSON body whose servlet field is the mapping's servletName; then
\* return true
ServletError(r) ==
  [r EXCEPT !.pc = "done", !.result = "handled", !.threw = TRUE,
            !.status = IF r.headersSent THEN @ ELSE 500,
            !.written = IF r.headersSent THEN @ ELSE @ + 1,
            !.errorServlet = IF r.headersSent THEN @ ELSE r.name,
            !.headersSent = TRUE]

handleRequest(k, requestPath) ==
  /\ creq[k].pc \in {"idle", "done"}
  /\ totalRequests < MaxRequests
  /\ LET r == [IdleRequest EXCEPT !.path = requestPath]
         found == findMatchingServlet(servletMappings, requestPath)
     IN IF ~isStarted
        THEN /\ creq' = [creq EXCEPT ![k] =
                           [r EXCEPT !.pc = "done", !.result = "error"]]
             /\ UNCHANGED <<servletMappings, totalRequests, config>>
        ELSE IF found = <<>>
        THEN /\ creq' = [creq EXCEPT ![k] =
                           [r EXCEPT !.pc = "done", !.result = "notHandled"]]
             /\ UNCHANGED <<servletMappings, totalRequests, config>>
        ELSE LET m  == found[1]
                 r1 == [r EXCEPT !.servlet = m.servlet, !.name = m.servletName,
                                !.urlPattern = m.urlPattern]
             IN /\ servletMappings' = CountRequest(servletMappings, m.servlet)
                /\ totalRequests' = totalRequests + 1
                /\ IF ~isServletInitialized(m.servlet)
                   THEN /\ config' = InitCalled(m.servlet)
                        /\ creq' = [creq EXCEPT ![k] =
                                      [r1 EXCEPT !.pc = "awaitInit"]]
                   ELSE /\ creq' = [creq EXCEPT ![k] =
                                      ServiceCalled(r1, m.servlet)]
                        /\ UNCHANGED config
  /\ lc' = ForgetCall
  /\ UNCHANGED <<servletsByName, isStarted, life>>

\* await this.initializeServlet(matchedMapping) resumes
requestInitDone(k, ok) ==
  /\ creq[k].pc = "awaitInit"
  /\ life' = InitCompleted(creq[k].servlet, ok)
  /\ creq' = [creq EXCEPT ![k] =
                IF ok THEN ServiceCalled(creq[k], creq[k].servlet)
                ELSE ServletError(creq[k])]
  /\ UNCHANGED <<servletMappings, servletsByName, isStarted, totalRequests,
                 config, lc>>

\* await matchedMapping.servlet.service(request, response) resumes.
\* outcome: "ok" the servlet sent its response; "throw" it threw before
\* sending anything; "throwAfterSend" it threw with the headers sent.
ServiceOutcomes == {"ok", "throw", "throwAfterSend"}

requestServiceDone(k, outcome) ==
  /\ creq[k].pc = "awaitService"
  /\ creq' = [creq EXCEPT ![k] =
                IF outcome = "ok"
                THEN [creq[k] EXCEPT !.pc = "done", !.result = "handled",
                                     !.status = 200, !.headersSent = TRUE,
                                     !.written = @ + 1]
                ELSE IF outcome = "throw" THEN ServletError(creq[k])
                ELSE ServletError([creq[k] EXCEPT !.status = 200,
                                                  !.headersSent = TRUE,
                                                  !.written = @ + 1])]
  /\ UNCHANGED <<servletMappings, servletsByName, isStarted, totalRequests,
                 config, life, lc>>

\* what the do* method of an HttpServlet does on this request: it sends its
\* response, it throws before sending, or it sends and then throws
DoOutcomes == {"ok", "throw", "sendThrow"}

\* Response.send: writeHeadersIfNeeded, which does nothing once the headers
\* were sent, then _raw.end(body) in every case; written counts these calls
ResponseSend(r, code) ==
  [r EXCEPT !.written = @ + 1,
            !.status = IF r.headersSent THEN @ ELSE code,
            !.headersSent = TRUE]

\* HttpServlet.service: the do* method of the request's HTTP method, and a
\* catch block that answers 500 without looking at headersSent; service
\* itself never throws
HttpServletService(r, doOutcome) ==
  CASE doOutcome = "ok"        -> ResponseSend(r, 200)
    [] doOutcome = "throw"     -> ResponseSend(r, 500)
    [] doOutcome = "sendThrow" -> ResponseSend(ResponseSend(r, 200), 500)

\* await matchedMapping.servlet.service(request, response) resumes, the
\* servlet being an HttpServlet: handleRequest returns true
httpServiceDone(k, doOutcome) ==
  /\ creq[k].pc = "awaitService"
  /\ creq' = [creq EXCEPT ![k] =
                [HttpServletService(creq[k], doOutcome) EXCEPT
                   !.pc = "done", !.result = "handled"]]
  /\ UNCHANGED <<servletMappings, servletsByName, isStarted, totalRequests,
                 config, life, lc>>

ContainerInit ==
  /\ servletMappings = <<>>
  /\ servletsByName = {}
  /\ isStarted = FALSE
  /\ totalRequests = 0
  /\ config = [s \in Servlets |-> FALSE]
  /\ life = [s \in Servlets |-> [initDone |-> FALSE, destroyed |-> FALSE]]
  /\ lc = IdleCall
  /\ creq = [k \in Slots |-> IdleRequest]

ContainerFrame == UNCHANGED <<routerVars, bridgeVars, serverVars, matchVars>>

\* The calls on the container one after the other: a call begins when no
\* other call is between two awaits (section 5 of the design: register,
\* start and stop are not run concurrently with dispatch).
ContainerNext ==
  \/ ContainerFrame /\ Quiet /\ start
  \/ ContainerFrame /\ \E ok \in BOOLEAN : startInitDone(ok)
  \/ ContainerFrame /\ Quiet /\ stop
  \/ ContainerFrame /\ \E ok \in BOOLEAN : stopDestroyDone(ok)
  \/ ContainerFrame /\ Quiet
       /\ \E u \in UrlPatterns, s \in Servlets, l \in LoadOnStartups :
            registerServlet(u, s, ServletNameOf(s), l)
  \/ ContainerFrame /\ \E ok \in BOOLEAN : registerInitDone(ok)
  \/ ContainerFrame /\ Quiet /\ \E u \in UrlPatterns : unregisterServlet(u)
  \/ ContainerFrame /\ \E ok \in BOOLEAN : unregisterDestroyDone(ok)
  \/ ContainerFrame /\ Quiet /\ \E p \in RequestPaths : handleRequest(1, p)
  \/ ContainerFrame /\ \E ok \in BOOLEAN : requestInitDone(1, ok)
  \/ ContainerFrame /\ \E o \in ServiceOutcomes : requestServiceDone(1, o)

\* The calls on the container as the event loop interleaves them: a request
\* arrives whenever the container is between two awaits of another call;
\* every init succeeds, and the servlets are HttpServlets or servlets whose
\* service succeeds.
ConcurrentNext ==
  \/ ContainerFrame /\ ~isStarted /\ start
  \/ ContainerFrame /\ startInitDone(TRUE)
  \/ ContainerFrame
       /\ \E u \in UrlPatterns, s \in Servlets, l \in LoadOnStartups :
            registerServlet(u, s, ServletNameOf(s), l)
  \/ ContainerFrame /\ registerInitDone(TRUE)
  \/ ContainerFrame /\ \E k \in Slots, p \in RequestPaths : handleRequest(k, p)
  \/ ContainerFrame /\ \E k \in Slots : requestInitDone(k, TRUE)
  \/ ContainerFrame /\ \E k \in Slots : requestServiceDone(k, "ok")
  \/ ContainerFrame /\ \E k \in Slots, o \in DoOutcomes : httpServiceDone(k, o)

-----------------------------------------------------------------------------
(* SpringBridge  (src/unnamed/part_004)                                    *)

retryAttempts == 3               \* SpringBridgeConfig.retryAttempts default

MaxTicksInFlight == 2            \* interval callbacks between two awaits

TickSlots == 1..MaxTicksInFlight

\* what the health endpoint answers to one probe
ProbeOutcomes == {"200", "204", "503", "error", "timeout"}

\* what the upstream answers to one makeHttpRequest(GET, metadataPath):
\* a mappings document, a body that is not JSON, a 404 whose body is a JSON
\* error object, or no answer
Docs == {"doc1", "doc2"}
FetchOutcomes == Docs \cup {"malformed", "notFound", "error", "timeout"}

\* what the upstream answers to one forwarded request
UpstreamOutcomes == {"200", "404", "error", "timeout"}

NoDoc == "null"

\* the metadata built from a JSON body without contexts.application.mappings
EmptyDoc == "empty"

IdleStart == [pc |-> "idle", attempt |-> 0, probes |-> 0, healthy |-> 0,
              sleeps |-> 0, fetches |-> 0, scheduled |-> FALSE,
              result |-> "none", fetch |-> "none"]

IdleTick == [pc |-> "idle", before |-> FALSE, isHealthy |-> FALSE,
             refetches |-> 0, refetchOk |-> FALSE, fetch |-> "none"]

\* header names of an upstream answer: http.IncomingMessage.headers has
\* lower-cased keys
UpstreamHeaderNames == {"connection", "transfer-encoding", "content-encoding",
                        "content-length", "content-type", "x-a"}

\* String.prototype.toLowerCase on the header names the code handles
toLowerCase(name) ==
  CASE name = "Content-Type" -> "content-type"
    [] name = "Host" -> "host"
    [] OTHER -> name

\* the 'data' chunks of an upstream body, as bytes: "ok", the two bytes of
\* U+00E9 together and apart, and a byte that is not UTF-8
BodyChunks == { <<111, 107>>, <<195, 169>>, <<195>>, <<169>>, <<255>> }

MaxBodyChunks == 2    \* 'data' events of one upstream answer

\* what the upstream sends besides its status line
UpstreamAnswers ==
  [headers : SUBSET UpstreamHeaderNames,
   chunks  : UNION {[1..n -> BodyChunks] : n \in 0..MaxBodyChunks}]

\* an answer without headers and without body
PlainAnswer == [headers |-> {}, chunks |-> <<>>]

RECURSIVE Flatten(_)
Flatten(seqs) == IF seqs = <<>> THEN <<>> ELSE Head(seqs) \o Flatten(Tail(seqs))

\* Buffer.prototype.toString('utf8') of one chunk, as code points: a byte
\* below 128 is itself, a two-byte lead with its continuation byte is one
\* code point, every other byte is U+FFFD (the chunks above hold no lead of
\* a longer sequence)
RECURSIVE Utf8Decode(_)
Utf8Decode(bytes) ==
  IF bytes = <<>> THEN <<>>
  ELSE LET b == bytes[1]
       IN IF b < 128 THEN <<b>> \o Utf8Decode(Tail(bytes))
          ELSE IF b >= 194 /\ b <= 223 /\ Len(bytes) >= 2
                  /\ bytes[2] >= 128 /\ bytes[2] <= 191
          THEN <<(b - 192) * 64 + (bytes[2] - 128)>>
                 \o Utf8Decode(Tail(Tail(bytes)))
          ELSE <<65533>> \o Utf8Decode(Tail(bytes))

\* the bytes http.ServerResponse.end(string) writes: UTF-8 of each code point
RECURSIVE Utf8Encode(_)
Utf8Encode(codePoints) ==
  IF codePoints = <<>> THEN <<>>
  ELSE LET c == codePoints[1]
           enc == IF c < 128 THEN <<c>>
                  ELSE IF c < 2048 THEN <<192 + (c \div 64), 128 + (c % 64)>>
                  ELSE <<224 + (c \div 4096), 128 + ((c \div 64) % 64),
                         128 + (c % 64)>>
       IN enc \o Utf8Encode(Tail(codePoints))

\* makeHttpRequest: responseBody += chunk for every 'data' event
responseBody(chunks) ==
  Flatten([i \in 1..Len(chunks) |-> Utf8Decode(chunks[i])])

\* SpringBridge.shouldSkipHeader
shouldSkipHeader(headerName) ==
  toLowerCase(headerName) \in {"connection", "transfer-encoding",
                               "content-encoding", "content-length"}

IdleProxy == [pc |-> "idle", readyAtEntry |-> FALSE, upstreamCalls |-> 0,
              upstream |-> "none", status |-> 0,
              answer |-> PlainAnswer, headers |-> {}, body |-> <<>>]

\* SpringBridge.checkSpringHealth: resolve(res.statusCode === 200), and
\* resolve(false) on 'error' and on 'timeout'
checkSpringHealth(outcome) == outcome = "200"

\* SpringBridge.loadSpringMetadata after its await: TRUE iff it assigns
\* this.springMetadata (makeHttpRequest resolved and JSON.parse succeeded)
MetadataLoaded(outcome) == outcome \in Docs \cup {"notFound"}

\* the object loadSpringMetadata assigns: the status code is not looked at,
\* the mappings of the document are collected into a new array, and a JSON
\* object of another shape gives an empty array
ParsedMetadata(outcome) == IF outcome \in Docs THEN outcome ELSE EmptyDoc

\* SpringMetadata.mappings, as the set of mapping paths
Mappings(metadata) ==
  CASE metadata = "doc1" -> {"/a", "/b"}
    [] metadata = "doc2" -> {"/b", "/c"}
    [] OTHER -> {}

\* ---- start() -------------------------------------------------------------
\* start -> waitForSpring, attempt 1, up to the await of the first probe.
\* start() is called once, on a bridge just constructed: the server builds a
\* new SpringBridge for every start and drops the one whose start() failed
\* (Server.setupSpringBridge).
bridgeStart ==
  /\ phase = "created"
  /\ bstart.pc = "idle"
  /\ phase' = "starting"
  /\ bstart' = [IdleStart EXCEPT !.pc = "awaitProbe", !.attempt = 1,
                                 !.probes = 1]
  /\ UNCHANGED <<isSpringReady, springMetadata, healthCheckInterval, tick, preq>>

\* a waitForSpring whose loop bound is off by one (attempt <= retryAttempts
\* also guards the sleep)
startProbeDone_OffByOne(outcome) ==
  /\ bstart.pc = "awaitProbe"
  /\ IF checkSpringHealth(outcome)
     THEN /\ isSpringReady' = TRUE
          /\ bstart' = [bstart EXCEPT !.pc = "awaitMetadata", !.healthy = @ + 1,
                                      !.fetches = @ + 1]
          /\ UNCHANGED phase
     ELSE IF bstart.attempt <= retryAttempts
          THEN /\ bstart' = [bstart EXCEPT !.pc = "sleeping", !.sleeps = @ + 1]
               /\ UNCHANGED <<isSpringReady, phase>>
          ELSE /\ bstart' = [bstart EXCEPT !.pc = "done", !.result = "unavailable"]
               /\ phase' = "failed"
               /\ UNCHANGED isSpringReady
  /\ UNCHANGED <<springMetadata, healthCheckInterval, tick, preq>>

\* await this.checkSpringHealth() resumes inside waitForSpring
startProbeDone(outcome) ==
  /\ bstart.pc = "awaitProbe"
  /\ IF checkSpringHealth(outcome)
     THEN \* isSpringReady = true; return; then loadSpringMetadata's request
          /\ isSpringReady' = TRUE
          /\ bstart' = [bstart EXCEPT !.pc = "awaitMetadata", !.healthy = @ + 1,
                                      !.fetches = @ + 1]
          /\ UNCHANGED phase
     ELSE IF bstart.attempt < retryAttempts
          THEN /\ bstart' = [bstart EXCEPT !.pc = "sleeping", !.sleeps = @ + 1]
               /\ UNCHANGED <<isSpringReady, phase>>
          ELSE /\ bstart' = [bstart EXCEPT !.pc = "done", !.result = "unavailable"]
               /\ phase' = "failed"
               /\ UNCHANGED isSpringReady
  /\ UNCHANGED <<springMetadata, healthCheckInterval, tick, preq>>

\* await this.sleep(retryDelay) resumes: next attempt
startSleepDone ==
  /\ bstart.pc = "sleeping"
  /\ bstart' = [bstart EXCEPT !.pc = "awaitProbe", !.attempt = @ + 1,
                              !.probes = @ + 1]
  /\ UNCHANGED <<isSpringReady, springMetadata, healthCheckInterval, phase,
                 tick, preq>>

\* loadSpringMetadata's await resumes; on success startHealthCheck()
startMetadataDone(outcome) ==
  /\ bstart.pc = "awaitMetadata"
  /\ IF MetadataLoaded(outcome)
     THEN /\ springMetadata' = ParsedMetadata(outcome)
          /\ healthCheckInterval' = TRUE
          /\ bstart' = [bstart EXCEPT !.pc = "done", !.result = "ok",
                                      !.scheduled = TRUE, !.fetch = outcome]
          /\ phase' = "started"
     ELSE /\ bstart' = [bstart EXCEPT !.pc = "done", !.result = "metadata",
                                      !.fetch = outcome]
          /\ phase' = "failed"
          /\ UNCHANGED <<springMetadata, healthCheckInterval>>
  /\ UNCHANGED <<isSpringReady, tick, preq>>

\* ---- stop() --------------------------------------------------------------
\* a stop that leaves the interval timer running
bridgeStop_KeepInterval ==
  /\ bstart.pc \in {"idle", "done"}
  /\ phase # "stopped"
  /\ isSpringReady' = FALSE
  /\ springMetadata' = NoDoc
  /\ phase' = "stopped"
  /\ bstart' = IdleStart
  /\ UNCHANGED <<healthCheckInterval, tick, preq>>

bridgeStop ==
  /\ bstart.pc \in {"idle", "done"}
  /\ phase # "stopped"
  /\ healthCheckInterval' = FALSE
  /\ isSpringReady' = FALSE
  /\ springMetadata' = NoDoc
  /\ phase' = "stopped"
  /\ bstart' = IdleStart
  /\ UNCHANGED <<tick, preq>>

\* ---- startHealthCheck(): the setInterval callback ------------------------
\* the timer fires: the callback runs up to its await of the probe
healthCheckTick(t) ==
  /\ healthCheckInterval
  /\ tick[t].pc \in {"idle", "done"}
  /\ tick' = [tick EXCEPT ![t] = [IdleTick EXCEPT !.pc = "awaitProbe"]]
  /\ UNCHANGED <<isSpringReady, springMetadata, healthCheckInterval, phase,
                 bstart, preq>>

\* a callback that reloads the metadata on every healthy probe
tickProbeDone_RefetchWhenHealthy(t, outcome) ==
  /\ tick[t].pc = "awaitProbe"
  /\ LET isHealthy == checkSpringHealth(outcome)
         r == [tick[t] EXCEPT !.before = isSpringReady, !.isHealthy = isHealthy]
     IN /\ isSpringReady' = isHealthy
        /\ tick' = [tick EXCEPT ![t] =
                      IF isHealthy
                      THEN [r EXCEPT !.pc = "awaitRefetch", !.refetches = @ + 1]
                      ELSE [r EXCEPT !.pc = "done"]]
  /\ UNCHANGED <<springMetadata, healthCheckInterval, phase, bstart, preq>>

\* the probe resolves: compare, assign, and on DOWN -> UP start the refetch
tickProbeDone(t, outcome) ==
  /\ tick[t].pc = "awaitProbe"
  /\ LET isHealthy == checkSpringHealth(outcome)
         r == [tick[t] EXCEPT !.before = isSpringReady, !.isHealthy = isHealthy]
     IN IF isSpringReady # isHealthy
        THEN /\ isSpringReady' = isHealthy
             /\ tick' = [tick EXCEPT ![t] =
                           IF isHealthy
                           THEN [r EXCEPT !.pc = "awaitRefetch",
                                          !.refetches = @ + 1]
                           ELSE [r EXCEPT !.pc = "done"]]
        ELSE /\ tick' = [tick EXCEPT ![t] = [r EXCEPT !.pc = "done"]]
             /\ UNCHANGED isSpringReady
  /\ UNCHANGED <<springMetadata, healthCheckInterval, phase, bstart, preq>>

\* loadSpringMetadata's await resumes inside the callback's try/catch
tickRefetchDone(t, outcome) ==
  /\ tick[t].pc = "awaitRefetch"
  /\ springMetadata' = IF MetadataLoaded(outcome) THEN ParsedMetadata(outcome)
                       ELSE springMetadata
  /\ tick' = [tick EXCEPT ![t] = [@ EXCEPT !.pc = "done",
                                   !.refetchOk = MetadataLoaded(outcome),
                                   !.fetch = outcome]]
  /\ UNCHANGED <<isSpringReady, healthCheckInterval, phase, bstart, preq>>

\* ---- proxyRequest() ------------------------------------------------------
\* a proxyRequest without the readiness check
proxyRequest_NoReadyCheck ==
  /\ preq.pc \in {"idle", "done"}
  /\ preq' = [IdleProxy EXCEPT !.readyAtEntry = isSpringReady,
                               !.pc = "awaitBody"]
  /\ UNCHANGED <<isSpringReady, springMetadata, healthCheckInterval, phase,
                 bstart, tick>>

\* up to the 503 answer, or to the await of request.getBody()
proxyRequest ==
  /\ preq.pc \in {"idle", "done"}
  /\ LET r == [IdleProxy EXCEPT !.readyAtEntry = isSpringReady]
     IN preq' = IF ~isSpringReady
                THEN [r EXCEPT !.pc = "done", !.status = 503,
                                !.headers = {toLowerCase("Content-Type")}]
                ELSE [r EXCEPT !.pc = "awaitBody"]
  /\ UNCHANGED <<isSpringReady, springMetadata, healthCheckInterval, phase,
                 bstart, tick>>

\* request.getBody() settles: makeHttpRequest is called, or the catch block
proxyBodyDone(ok) ==
  /\ preq.pc = "awaitBody"
  /\ preq' = IF ok
             THEN [preq EXCEPT !.pc = "awaitUpstream", !.upstreamCalls = @ + 1]
             ELSE [preq EXCEPT !.pc = "done", !.status = 502,
                                !.headers = {toLowerCase("Content-Type")}]
  /\ UNCHANGED <<isSpringReady, springMetadata, healthCheckInterval, phase,
                 bstart, tick>>

\* a proxyRequest that sends the request a second time when the first
\* attempt fails
proxyUpstreamDone_RetryOnce(outcome, res) ==
  /\ preq.pc = "awaitUpstream"
  /\ preq' = IF outcome \in {"error", "timeout"} /\ preq.upstreamCalls < 2
             THEN [preq EXCEPT !.upstreamCalls = @ + 1]
             ELSE [preq EXCEPT !.pc = "done", !.upstream = outcome,
                     !.status = IF outcome = "200" THEN 200
                                ELSE IF outcome = "404" THEN 404
                                ELSE 502]
  /\ UNCHANGED <<isSpringReady, springMetadata, healthCheckInterval, phase,
                 bstart, tick>>

\* makeHttpRequest settles. Resolved: the upstream's status is copied, its
\* headers go through setHeader unless shouldSkipHeader, and the body string
\* is sent. Rejected: the catch block answers 502 with response.json
proxyUpstreamDone(outcome, res) ==
  /\ preq.pc = "awaitUpstream"
  /\ preq' = IF outcome \in {"error", "timeout"}
             THEN [preq EXCEPT !.pc = "done", !.upstream = outcome,
                     !.status = 502,
                     !.headers = {toLowerCase("Content-Type")}]
             ELSE [preq EXCEPT !.pc = "done", !.upstream = outcome,
                     !.status = IF outcome = "200" THEN 200 ELSE 404,
                     !.answer = res,
                     !.headers = {toLowerCase(k) : k \in
                                    {h \in res.headers : ~shouldSkipHeader(h)}},
                     !.body = Utf8Encode(responseBody(res.chunks))]
  /\ UNCHANGED <<isSpringReady, springMetadata, healthCheckInterval, phase,
                 bstart, tick>>

\* the upstream connection closes after the response headers and before the
\* end of the body: the response emits 'aborted' and 'close', for which
\* makeHttpRequest registered no listener; the request emits no 'error' and
\* its socket timer is gone, so the promise is neither resolved nor rejected
proxyUpstreamAborted ==
  /\ preq.pc = "awaitUpstream"
  /\ preq' = [preq EXCEPT !.pc = "aborted", !.upstream = "aborted"]
  /\ UNCHANGED <<isSpringReady, springMetadata, healthCheckInterval, phase,
                 bstart, tick>>

BridgeInit ==
  /\ isSpringReady = FALSE
  /\ springMetadata = NoDoc
  /\ healthCheckInterval = FALSE
  /\ phase = "created"
  /\ bstart = IdleStart
  /\ tick = [t \in TickSlots |-> IdleTick]
  /\ preq = IdleProxy

BridgeFrame == UNCHANGED <<routerVars, containerVars, serverVars, matchVars>>

BridgeNext ==
  \/ BridgeFrame /\ bridgeStart
  \/ BridgeFrame /\ \E o \in ProbeOutcomes : startProbeDone(o)
  \/ BridgeFrame /\ startSleepDone
  \/ BridgeFrame /\ \E o \in FetchOutcomes : startMetadataDone(o)
  \/ BridgeFrame /\ bridgeStop
  \/ BridgeFrame /\ \E t \in TickSlots : healthCheckTick(t)
  \/ BridgeFrame /\ \E t \in TickSlots, o \in ProbeOutcomes : tickProbeDone(t, o)
  \/ BridgeFrame /\ \E t \in TickSlots, o \in FetchOutcomes : tickRefetchDone(t, o)
  \/ BridgeFrame /\ proxyRequest
  \/ BridgeFrame /\ \E ok \in BOOLEAN : proxyBodyDone(ok)
  \/ BridgeFrame /\ \E o \in UpstreamOutcomes : proxyUpstreamDone(o, PlainAnswer)

\* proxyRequest on a bridge whose start() found the upstream healthy, with
\* every upstream answer
ProxyNext ==
  \/ BridgeFrame /\ bridgeStart
  \/ BridgeFrame /\ startProbeDone("200")
  \/ BridgeFrame /\ startMetadataDone("doc1")
  \/ BridgeFrame /\ proxyRequest
  \/ BridgeFrame /\ \E ok \in BOOLEAN : proxyBodyDone(ok)
  \/ BridgeFrame /\ \E o \in UpstreamOutcomes, res \in UpstreamAnswers :
                      proxyUpstreamDone(o, res)
  \/ BridgeFrame /\ proxyUpstreamAborted

-----------------------------------------------------------------------------
(* Specifications                                                          *)

-----------------------------------------------------------------------------
(* Server (src/src/core/Route.ts, the class that owns a ServletContainer,  *)
(* a Router and a SpringBridge)                                            *)

\* url patterns the servlets of a server are registered under: /u/x  /a
ServerPatterns == { <<"/", "u", "/", "x">>, <<"/", "a">> }
ServerLoadOnStartups == { <<>>, <<1>> }

NoServerRequest == [pc |-> "idle", method |-> "-", url |-> <<>>,
                    offered |-> <<>>, servletHandled |-> "none",
                    serviced |-> 0, status |-> 0]

\* Server.start() after `await this.servletContainer.start()` returned
\* without throwing: http.createServer(callback) and listen
listen ==
  /\ ~httpServer
  /\ lc.op = "start" /\ lc.pc = "done" /\ lc.result = "ok"
  /\ httpServer' = TRUE
  /\ UNCHANGED <<sreq, routerVars, containerVars>>

\* the request callback of http.createServer: new Request, new Response,
\* this.handleRequest(request, response), which runs
\* servletContainer.handleRequest up to its first await or its return
serverRequest(method, url) ==
  /\ httpServer
  /\ sreq.pc \in {"idle", "done"}
  /\ rres.pc = "idle" \/ Settled(rres)
  /\ handleRequest(1, RequestPath(url))
  /\ rres' = NoResult
  /\ sreq' = [NoServerRequest EXCEPT !.pc = "container", !.method = method,
                                     !.url = url,
                                     !.offered = <<"container">>]
  /\ UNCHANGED <<routes, middlewares, httpServer>>

\* a handleRequest that delegates to the router whatever the container said
serverHandleRequest_RouterAlways(handlerKind) ==
  /\ sreq.pc = "container" /\ creq[1].pc = "done"
  /\ IF creq[1].result = "error"
     THEN /\ sreq' = [sreq EXCEPT !.pc = "done", !.servletHandled = "threw",
                                  !.status = 500]
          /\ UNCHANGED routerVars
     ELSE /\ handle(sreq.method, sreq.url, handlerKind)
          /\ sreq' = [sreq EXCEPT !.pc = "router",
                        !.servletHandled = creq[1].result,
                        !.serviced = creq[1].serviced,
                        !.offered = Append(@, "router")]
  /\ UNCHANGED <<containerVars, httpServer>>

\* Server.handleRequest resumes from `await servletContainer.handleRequest`:
\* a rejection reaches the callback's catch (500), true ends the request,
\* false calls router.handle, which runs up to its first await
serverHandleRequest(handlerKind) ==
  /\ sreq.pc = "container" /\ creq[1].pc = "done"
  /\ IF creq[1].result = "error"
     THEN /\ sreq' = [sreq EXCEPT !.pc = "done", !.servletHandled = "threw",
                                  !.status = 500]
          /\ UNCHANGED routerVars
     ELSE IF creq[1].result = "handled"
     THEN /\ sreq' = [sreq EXCEPT !.pc = "done", !.servletHandled = "handled",
                                  !.serviced = creq[1].serviced,
                                  !.status = creq[1].status]
          /\ UNCHANGED routerVars
     ELSE /\ handle(sreq.method, sreq.url, handlerKind)
          /\ sreq' = [sreq EXCEPT !.pc = "router",
                        !.servletHandled = "notHandled",
                        !.serviced = creq[1].serviced,
                        !.offered = Append(@, "router")]
  /\ UNCHANGED <<containerVars, httpServer>>

\* Server.stop(): httpServer.close, whose callback runs once no request is
\* in flight and calls servletContainer.stop() up to its first await
serverStop ==
  /\ httpServer
  /\ sreq.pc \in {"idle", "done"}
  /\ httpServer' = FALSE
  /\ stop
  /\ UNCHANGED <<sreq, routerVars>>

\* Server.handleRequest resumes from `await this.router.handle(...)`
serverRouterDone ==
  /\ sreq.pc = "router" /\ rres.pc = "done"
  /\ sreq' = [sreq EXCEPT !.pc = "done", !.status = rres.status]
  /\ UNCHANGED <<routerVars, containerVars, httpServer>>

ServerInit ==
  /\ httpServer = FALSE
  /\ sreq = NoServerRequest
  /\ springBridge = FALSE
  /\ springEnabled = FALSE
  /\ sstart = "idle"

ServerBusy == sreq.pc \in {"container", "router"}

ServerNext ==
  \/ UNCHANGED <<matchVars, bridgeVars, serverVars>> /\ ~ServerBusy
       /\ Len(routes) < MaxChainRoutes
       /\ \E t \in ChainTemplates : addRoute("GET", t)
       /\ UNCHANGED containerVars
  \/ UNCHANGED <<matchVars, bridgeVars, serverVars, routerVars>> /\ Quiet /\ ~ServerBusy
       /\ \E u \in ServerPatterns, s \in Servlets, l \in ServerLoadOnStartups :
            registerServlet(u, s, ServletNameOf(s), l)
  \/ UNCHANGED <<matchVars, bridgeVars, serverVars, routerVars>>
       /\ \E ok \in BOOLEAN : registerInitDone(ok)
  \/ UNCHANGED <<matchVars, bridgeVars, serverVars, routerVars>> /\ Quiet /\ ~httpServer
       /\ start
  \/ UNCHANGED <<matchVars, bridgeVars, serverVars, routerVars>>
       /\ \E ok \in BOOLEAN : startInitDone(ok)
  \/ UNCHANGED <<matchVars, bridgeVars, springVars>> /\ listen
  \/ UNCHANGED <<matchVars, bridgeVars, springVars>> /\ Quiet /\ serverStop
  \/ UNCHANGED <<matchVars, bridgeVars, serverVars, routerVars>>
       /\ \E ok \in BOOLEAN : stopDestroyDone(ok)
  \/ UNCHANGED <<matchVars, bridgeVars, springVars>> /\ Quiet
       /\ \E u \in Urls : serverRequest("GET", u)
  \/ UNCHANGED <<matchVars, bridgeVars, serverVars, routerVars>>
       /\ \E ok \in BOOLEAN : requestInitDone(1, ok)
  \/ UNCHANGED <<matchVars, bridgeVars, serverVars, routerVars>>
       /\ \E o \in ServiceOutcomes : requestServiceDone(1, o)
  \/ UNCHANGED <<matchVars, bridgeVars, springVars>> /\ \E h \in HandlerKinds : serverHandleRequest(h)
  \/ RouterFrame /\ \E i \in DOMAIN rres.frames, h \in HandlerKinds :
                      resumeAwait(i, h)
  \/ RouterFrame /\ handleResume
  \/ UNCHANGED <<matchVars, bridgeVars, springVars>> /\ serverRouterDone

-----------------------------------------------------------------------------
(* Server with its SpringBridge: setupSpringBridge, registerSpringRoutes   *)
(* and the proxy handlers  (src/src/core/Route.ts)                         *)

MaxLocalRoutes == 1   \* routes registered through getRouter()

\* SpringMetadata.mappings in document order, as (method, path); doc2 holds
\* a PATCH mapping, which registerSpringRoutes skips
MappingList(metadata) ==
  CASE metadata = "doc1" -> <<[method |-> "GET", path |-> "/a"],
                              [method |-> "POST", path |-> "/b"]>>
    [] metadata = "doc2" -> <<[method |-> "GET", path |-> "/b"],
                              [method |-> "PATCH", path |-> "/c"]>>
    [] OTHER -> <<>>

\* a mapping path as the characters Route.createPattern reads
PathChars(path) ==
  CASE path = "/a" -> <<"/", "a">>
    [] path = "/b" -> <<"/", "b">>
    [] path = "/c" -> <<"/", "c">>

\* the proxyHandler closure created for the i-th mapping; the handlers of
\* addRoute are the positive numbers
ProxyHandler(i) == 0 - i

IsProxyHandler(handler) == handler < 0

\* local templates /a  /b; request urls /a and the servlet's /u/x
LocalTemplates == { <<"/", "a">>, <<"/", "b">> }
GatewayUrls == { <<"/", "a">>, <<"/", "u", "/", "x">> }

\* answers of the mappings endpoint in the server model
GatewayFetches == {"doc1", "doc2", "error"}

\* Server.registerSpringRoutes: nothing unless the bridge is ready and has
\* metadata; else one route per mapping whose method is get, post, put or
\* delete, appended in mapping order
RECURSIVE registerSpringRoutesFrom(_, _, _)
registerSpringRoutesFrom(rs, mappings, i) ==
  IF i > Len(mappings) THEN rs
  ELSE registerSpringRoutesFrom(
         IF mappings[i].method \in {"GET", "POST", "PUT", "DELETE"}
         THEN Append(rs, Route(mappings[i].method, PathChars(mappings[i].path),
                               ProxyHandler(i)))
         ELSE rs,
         mappings, i + 1)

registerSpringRoutes(rs, ready, metadata) ==
  IF ~ready \/ metadata = NoDoc THEN rs
  ELSE registerSpringRoutesFrom(rs, MappingList(metadata), 1)

\* Server.start after `await this.servletContainer.start()`:
\* setupSpringBridge up to `await this.springBridge.start()`, or through its
\* outer catch when loadConfig fails (standalone mode)
setupSpringBridge(configOk) ==
  /\ ~httpServer /\ sstart = "idle"
  /\ lc.op = "start" /\ lc.pc = "done" /\ lc.result = "ok"
  /\ IF configOk
     THEN /\ springBridge' = TRUE
          /\ sstart' = "awaitBridge"
          /\ bridgeStart
          /\ UNCHANGED springEnabled
     ELSE /\ springEnabled' = FALSE
          /\ sstart' = "done"
          /\ UNCHANGED <<springBridge, bridgeVars>>
  /\ UNCHANGED <<httpServer, sreq, routerVars, containerVars>>

\* a setupSpringBridge that keeps the bridge whose start() failed
afterBridgeStart_KeepBridge ==
  IF bstart'.pc # "done"
  THEN UNCHANGED <<springVars, routes>>
  ELSE /\ sstart' = "done"
       /\ springEnabled' = (bstart'.result = "ok")
       /\ routes' = registerSpringRoutes(routes, isSpringReady',
                                         springMetadata')
       /\ UNCHANGED springBridge

\* setupSpringBridge resumes as soon as springBridge.start() settles (its
\* continuation is a microtask of the step that settles it): springEnabled
\* and registerSpringRoutes, or the inner catch
afterBridgeStart ==
  IF bstart'.pc # "done"
  THEN UNCHANGED <<springVars, routes>>
  ELSE /\ sstart' = "done"
       /\ IF bstart'.result = "ok"
          THEN /\ springEnabled' = TRUE
               /\ routes' = registerSpringRoutes(routes, isSpringReady',
                                                 springMetadata')
               /\ UNCHANGED springBridge
          ELSE /\ springBridge' = FALSE
               /\ springEnabled' = FALSE
               /\ UNCHANGED routes

\* what the route found for the request does: the proxy handler, or a local
\* handler that answers at once
HandlerKindOf(method, url) ==
  LET m == findRoute(routes, method, RequestPath(url))
  IN IF m.found /\ IsProxyHandler(routes[m.index].handler) THEN "proxy"
     ELSE "ok"

\* (ip counts the steps of the routing function: findRoute is step 1.)
\* the proxy handler resumes from getOrCreateSession and calls
\* springBridge.proxyRequest, which runs up to its 503 or its first await
proxyHandlerForward ==
  /\ rres.handlerKind = "proxy"
  /\ \E i \in DOMAIN rres.frames :
       /\ rres.frames[i].ip = 3
       /\ resumeAwait(i, "proxy")
  /\ proxyRequest

\* the proxy handler resumes from `await this.springBridge!.proxyRequest`
proxyHandlerDone ==
  /\ rres.handlerKind = "proxy"
  /\ preq.pc = "done"
  /\ \E i \in DOMAIN rres.frames :
       /\ rres.frames[i].ip = 4
       /\ resumeAwait(i, "proxy")

SpringFrame == UNCHANGED <<matchVars, httpServer, sreq, middlewares, rres,
                           containerVars>>

SpringServerNext ==
  \/ UNCHANGED <<matchVars, bridgeVars, serverVars>> /\ ~ServerBusy
       /\ Len(SelectSeq(routes, LAMBDA r : ~IsProxyHandler(r.handler)))
            < MaxLocalRoutes
       /\ \E t \in LocalTemplates : addRoute("GET", t)
       /\ UNCHANGED containerVars
  \/ UNCHANGED <<matchVars, bridgeVars, serverVars, routerVars>>
       /\ Quiet /\ ~isStarted /\ lc.op = "none" /\ servletMappings = <<>>
       /\ registerServlet(<<"/", "u", "/", "x">>, "s1", ServletNameOf("s1"),
                          <<1>>)
  \/ UNCHANGED <<matchVars, bridgeVars, serverVars, routerVars>>
       /\ Quiet /\ ~httpServer /\ ~isStarted /\ start
  \/ UNCHANGED <<matchVars, bridgeVars, serverVars, routerVars>>
       /\ \E ok \in BOOLEAN : startInitDone(ok)
  \/ UNCHANGED matchVars /\ \E c \in BOOLEAN : setupSpringBridge(c)
  \/ SpringFrame /\ (\E o \in ProbeOutcomes : startProbeDone(o))
       /\ afterBridgeStart
  \/ BridgeFrame /\ startSleepDone
  \/ SpringFrame /\ (\E o \in GatewayFetches : startMetadataDone(o))
       /\ afterBridgeStart
  \/ UNCHANGED <<matchVars, bridgeVars, springVars>> /\ sstart = "done"
       /\ listen
  \/ BridgeFrame /\ healthCheckTick(1)
  \/ BridgeFrame /\ \E o \in {"200", "503"} : tickProbeDone(1, o)
  \/ BridgeFrame /\ tickRefetchDone(1, "doc2")
  \/ UNCHANGED <<matchVars, bridgeVars, springVars>> /\ Quiet
       /\ \E m \in Methods, u \in GatewayUrls : serverRequest(m, u)
  \/ UNCHANGED <<matchVars, bridgeVars, serverVars, routerVars>>
       /\ requestServiceDone(1, "ok")
  \/ UNCHANGED <<matchVars, bridgeVars, springVars>>
       /\ serverHandleRequest(HandlerKindOf(sreq.method, sreq.url))
  \/ UNCHANGED <<matchVars, serverVars, containerVars>> /\ proxyHandlerForward
  \/ BridgeFrame /\ \E ok \in BOOLEAN : proxyBodyDone(ok)
  \/ BridgeFrame /\ \E o \in UpstreamOutcomes : proxyUpstreamDone(o, PlainAnswer)
  \/ UNCHANGED <<matchVars, bridgeVars, serverVars, containerVars>>
       /\ proxyHandlerDone
  \/ RouterFrame /\ handleResume
  \/ UNCHANGED <<matchVars, bridgeVars, springVars>> /\ serverRouterDone

-----------------------------------------------------------------------------
(* SpringBridge.matchPath (src/unnamed/part_004)                           *)

MaxPatternLen == 4    \* characters in a mapping pattern
MaxPathLen == 6       \* characters in a request path

SeqsUpTo(S, n) == UNION {[1..k -> S] : k \in 0..n}

\* mapping patterns are over / a * and request paths over / a
MatchPatterns == SeqsUpTo({"/", "a", "*"}, MaxPatternLen)
MatchPaths == SeqsUpTo({"/", "a"}, MaxPathLen)

\* String.prototype.endsWith, slice(0, -n), slice(n), includes
EndsWith(s, x) ==
  Len(x) <= Len(s) /\ SubSeq(s, Len(s) - Len(x) + 1, Len(s)) = x

DropLast(s, n) == SubSeq(s, 1, IF Len(s) > n THEN Len(s) - n ELSE 0)

SliceFrom(s, n) == SubSeq(s, n + 1, Len(s))

Includes(s, c) == \E i \in 1..Len(s) : s[i] = c

matchPath(pattern, path) ==
  IF pattern = path THEN TRUE
  ELSE IF EndsWith(pattern, <<"/", "*", "*">>)
  THEN LET basePath == DropLast(pattern, 3)
       IN StartsWith(path, basePath)
  ELSE IF EndsWith(pattern, <<"/", "*">>)
  THEN LET basePath == DropLast(pattern, 2)
           remainingPath == SliceFrom(path, Len(basePath))
       IN StartsWith(path, basePath) /\ ~Includes(remainingPath, "/")
  ELSE FALSE

NoMatchCall == [pc |-> "idle", pattern |-> <<>>, path |-> <<>>,
                result |-> FALSE]

\* the call matchPath(mapping.path, path) of hasSpringMapping returns
matchPathReturn ==
  /\ mcall.pc = "call"
  /\ mcall' = [mcall EXCEPT !.pc = "done",
                            !.result = matchPath(mcall.pattern, mcall.path)]
  /\ UNCHANGED rmatch

MatchCalls ==
  {[pc |-> "call", pattern |-> p, path |-> q, result |-> FALSE] :
     p \in MatchPatterns, q \in MatchPaths}

MatchNext ==
  UNCHANGED <<routerVars, containerVars, bridgeVars, serverVars>>
    /\ matchPathReturn

-----------------------------------------------------------------------------
(* Route.match on single routes (src/src/core/Route.ts)                    *)

MaxTemplateSegments == 2   \* segments of a route template
MaxPathSegments == 3       \* segments of a request path

\* segments of a template: literals u and u.x, parameters :a and :b
TemplateSegments == { <<"u">>, <<"u", ".", "x">>, <<":", "a">>, <<":", "b">> }

\* segments of a path; the empty one gives "//" and the trailing slash
PathSegments == { <<"u">>, <<"x">>, <<"u", ".", "x">>, <<"u", "x", "x">>,
                  <<>> }

\* "/" before every segment
JoinSegments(segs) ==
  Flatten([i \in 1..Len(segs) |-> <<SLASH>> \o segs[i]])

NoRouteMatch == [pc |-> "idle", tsegs |-> <<>>, psegs |-> <<>>,
                 template |-> <<>>, path |-> <<>>,
                 result |-> [matched |-> FALSE, params |-> <<>>]]

RouteMatchCalls ==
  {[NoRouteMatch EXCEPT !.pc = "call", !.tsegs = t, !.psegs = q,
                        !.template = JoinSegments(t),
                        !.path = JoinSegments(q)] :
     t \in UNION {[1..n -> TemplateSegments] : n \in 1..MaxTemplateSegments},
     q \in UNION {[1..n -> PathSegments] : n \in 1..MaxPathSegments}}

\* new Route('GET', template, handler).match(path) returns
routeMatchReturn ==
  /\ rmatch.pc = "call"
  /\ rmatch' = [rmatch EXCEPT !.pc = "done",
                  !.result = match(Route("GET", rmatch.template, 1),
                                   rmatch.path)]
  /\ UNCHANGED mcall

RouteMatchInit ==
  RouterInit /\ ContainerInit /\ BridgeInit /\ ServerInit
    /\ mcall = NoMatchCall /\ rmatch \in RouteMatchCalls

RouteMatchNext ==
  UNCHANGED <<routerVars, containerVars, bridgeVars, serverVars>>
    /\ routeMatchReturn

-----------------------------------------------------------------------------
Init == RouterInit /\ ContainerInit /\ BridgeInit /\ ServerInit
          /\ mcall = NoMatchCall /\ rmatch = NoRouteMatch

RouterSpec == Init /\ [][RouterNext]_vars

ChainSpec == Init /\ [][ChainNext]_vars

ContainerSpec == Init /\ [][ContainerNext]_vars

ConcurrentSpec == Init /\ [][ConcurrentNext]_vars

BridgeSpec == Init /\ [][BridgeNext]_vars

ProxySpec == Init /\ [][ProxyNext]_vars

ServerSpec == Init /\ [][ServerNext]_vars

SpringServerSpec == Init /\ [][SpringServerNext]_vars

MatchInit ==
  RouterInit /\ ContainerInit /\ BridgeInit /\ ServerInit
    /\ mcall \in MatchCalls /\ rmatch = NoRouteMatch

MatchSpec == MatchInit /\ [][MatchNext]_vars

RouteMatchSpec == RouteMatchInit /\ [][RouteMatchNext]_vars

-----------------------------------------------------------------------------
(* Properties                                                              *)

Min(S) == CHOOSE x \in S : \A y \in S : x <= y

PatternA  == <<"/", "a">>
PatternAB == <<"/", "a", "/", "b">>
PathABC   == <<"/", "a", "/", "b", "/", "c">>

\* the routes, among those registered when the request was handled, whose
\* method equals the request method and whose template matches its path
MatchingRoutes(r) ==
  {i \in 1..r.nroutes :
     routes[i].method = r.method /\ match(routes[i], r.path).matched}

\* C1: Router.handle invokes the handler of the earliest-registered route
\* whose method and template match the request, and no other handler; with
\* no matching route (or a middleware that halts) it invokes none.
C1_FirstRegisteredWins ==
  /\ rres.nroutes <= Len(routes)
  /\ IF rres.routed /\ MatchingRoutes(rres) # {}
     THEN rres.invoked = <<routes[Min(MatchingRoutes(rres))].handler>>
     ELSE rres.invoked = <<>>

\* two routes with the same compiled pattern and different parameter names
\* both match; the earlier one was invoked
C1_Witness ==
  \E i, j \in MatchingRoutes(rres) :
    /\ i < j
    /\ routes[i].pattern = routes[j].pattern
    /\ routes[i].paramNames # routes[j].paramNames
    /\ rres.invoked = <<routes[i].handler>>

\* the registered mappings whose urlPattern the path starts with
Candidates(path) ==
  {i \in 1..Len(servletMappings) :
     StartsWith(path, servletMappings[i].urlPattern)}

\* C2: handleRequest selects the mapping whose urlPattern equals the request
\* path, else the longest urlPattern the path starts with, whatever the
\* registration order; with no such mapping it reports not-handled.
C2_LongestPrefixSelected ==
  \A k \in Slots :
    (creq[k].pc # "idle" /\ creq[k].result # "error") =>
      LET c == Candidates(creq[k].path)
      IN IF c = {}
         THEN creq[k].result = "notHandled" /\ creq[k].servlet = NoServlet
         ELSE \E i \in c :
                /\ servletMappings[i].servlet = creq[k].servlet
                /\ servletMappings[i].urlPattern = creq[k].urlPattern
                /\ \A j \in c : Len(servletMappings[j].urlPattern)
                                  <= Len(servletMappings[i].urlPattern)
                /\ (\E j \in c : servletMappings[j].urlPattern = creq[k].path)
                     => creq[k].urlPattern = creq[k].path

\* /a registered before /a/b, and /a/b/c went to the /a/b servlet
C2_Witness ==
  /\ Len(servletMappings) = 2
  /\ servletMappings[1].urlPattern = PatternA
  /\ servletMappings[2].urlPattern = PatternAB
  /\ creq[1].path = PathABC
  /\ creq[1].urlPattern = PatternAB
  /\ creq[1].serviced = 1

\* C3: the service method of a servlet whose destroy has completed is never
\* invoked again.
C3_NoServiceAfterDestroy ==
  \A k \in Slots : ~creq[k].servicedDead

EagerServlets ==
  {servletMappings[i].servlet :
     i \in {j \in 1..Len(servletMappings) :
              servletMappings[j].loadOnStartup # <<>>}}

MappingIndex(servlet) ==
  CHOOSE i \in 1..Len(servletMappings) : servletMappings[i].servlet = servlet

Priority(servlet) == servletMappings[MappingIndex(servlet)].loadOnStartup[1]

\* x comes after f in ascending priority order (registration order on ties)
OrderedAfter(x, f) ==
  \/ Priority(x) > Priority(f)
  \/ Priority(x) = Priority(f) /\ MappingIndex(x) > MappingIndex(f)

InLog(servlet) == \E i \in 1..Len(lc.log) : lc.log[i] = servlet

\* C8: when the init of an eager servlet fails during start(), start()
\* fails, the container is left stopped, and no servlet ordered after the
\* failing one has its init called by that start(); the container is not
\* running while start() is still initializing.
C8_FailedStartLeavesStopped ==
  lc.op = "start" =>
    /\ lc.pc = "awaitInit" => ~isStarted
    /\ lc.failed # {} =>
         /\ lc.pc = "done" /\ lc.result = "error" /\ ~isStarted
         /\ \A f \in lc.failed : \A x \in EagerServlets :
              OrderedAfter(x, f) => ~InLog(x)
    /\ (lc.pc = "done" /\ lc.result = "ok") => (lc.failed = {} /\ isStarted)

\* a start() that failed on a servlet with another eager servlet after it
C8_Witness ==
  /\ lc.op = "start" /\ lc.pc = "done" /\ lc.result = "error"
  /\ ~isStarted
  /\ \E f \in lc.failed : \E x \in EagerServlets : OrderedAfter(x, f)

\* C9: start() calls init on exactly the servlets registered with a
\* loadOnStartup, one at a time in ascending loadOnStartup order, each init
\* completed before the next is called, and isStarted becomes true only
\* after the last of them has completed.
C9_EagerInitInPriorityOrder ==
  lc.op = "start" =>
    /\ \A i \in 1..Len(lc.log) : lc.log[i] \in EagerServlets
    /\ \A i, j \in 1..Len(lc.log) :
         i < j => /\ lc.log[i] # lc.log[j]
                  /\ Priority(lc.log[i]) <= Priority(lc.log[j])
    /\ \A i \in 1..(Len(lc.log) - 1) : life[lc.log[i]].initDone
    /\ lc.pc = "awaitInit" => (~isStarted /\ lc.cur = lc.log[Len(lc.log)])
    /\ (lc.pc = "done" /\ lc.result = "ok") =>
         /\ isStarted
         /\ {lc.log[i] : i \in 1..Len(lc.log)} = EagerServlets
         /\ \A x \in EagerServlets : life[x].initDone

\* the servlet registered second has the lower loadOnStartup and was
\* initialized first
C9_Witness ==
  /\ lc.op = "start" /\ lc.pc = "done" /\ lc.result = "ok"
  /\ Len(lc.log) = 2
  /\ MappingIndex(lc.log[1]) = 2
  /\ Priority(lc.log[1]) < Priority(lc.log[2])

\* C10: stop() on a running container calls destroy exactly once on every
\* registered servlet, also after one of them failed; stop() itself succeeds
\* and leaves the container stopped.
C10_StopDestroysAll ==
  (lc.op = "stop" /\ lc.arg # <<"not started">>) =>
    /\ \A s \in RegisteredServlets :
         Cardinality({i \in 1..Len(lc.log) : lc.log[i] = s}) <= 1
    /\ lc.pc = "done" =>
         /\ lc.result = "ok"
         /\ ~isStarted
         /\ Len(lc.log) = Len(servletMappings)
         /\ \A s \in RegisteredServlets :
              Cardinality({i \in 1..Len(lc.log) : lc.log[i] = s}) = 1

\* the first destroy failed and the second servlet was destroyed all the same
C10_Witness ==
  /\ lc.op = "stop" /\ lc.pc = "done"
  /\ Len(lc.log) = 2
  /\ lc.log[1] \in lc.failed
  /\ life[lc.log[2]].destroyed
  /\ ~isStarted

\* C4: a proxyRequest entered while isSpringReady is false answers 503 and
\* calls makeHttpRequest zero times.
C4_NotReadyAnswers503 ==
  (preq.pc # "idle" /\ ~preq.readyAtEntry) =>
    (preq.pc = "done" /\ preq.status = 503 /\ preq.upstreamCalls = 0)

\* a 503 after the periodic probe found the upstream down
C4_Witness ==
  /\ preq.pc = "done" /\ preq.status = 503
  /\ phase = "started" /\ healthCheckInterval
  /\ \E t \in TickSlots : tick[t].pc = "done" /\ tick[t].before
                          /\ ~tick[t].isHealthy

\* C5: when the upstream call of a forwarded request fails or times out,
\* the client gets 502 and makeHttpRequest was called exactly once.
C5_UpstreamFailureIs502Once ==
  /\ preq.upstreamCalls <= 1
  /\ (preq.pc = "done" /\ preq.upstream \in {"error", "timeout"}) =>
       (preq.readyAtEntry /\ preq.status = 502 /\ preq.upstreamCalls = 1)

C5_Witness ==
  preq.pc = "done" /\ preq.upstream = "timeout" /\ preq.status = 502

\* C6: start() probes at most retryAttempts times, probes no more after the
\* first healthy answer, sleeps only between two attempts, and when every
\* probe was unhealthy it fails with isSpringReady false, no metadata
\* fetched and no interval scheduled.
C6_StartProbesBounded ==
  /\ bstart.probes <= retryAttempts
  /\ bstart.healthy <= 1
  /\ bstart.healthy = 1 => bstart.pc \in {"awaitMetadata", "done"}
  /\ bstart.pc = "sleeping" =>
       (bstart.sleeps = bstart.probes /\ bstart.probes < retryAttempts)
  /\ bstart.pc \in {"awaitProbe", "awaitMetadata", "done"} =>
       bstart.sleeps = bstart.probes - 1
  /\ bstart.result = "unavailable" =>
       /\ bstart.probes = retryAttempts /\ bstart.healthy = 0
       /\ bstart.fetches = 0 /\ ~bstart.scheduled
       /\ ~isSpringReady /\ springMetadata = NoDoc /\ ~healthCheckInterval

C6_Witness ==
  /\ bstart.pc = "done" /\ bstart.result = "unavailable"
  /\ bstart.probes = retryAttempts /\ bstart.sleeps = retryAttempts - 1
  /\ phase = "failed"

C7_RefetchCount ==
  \A t \in TickSlots :
    /\ tick[t].pc = "awaitProbe" => tick[t].refetches = 0
    /\ tick[t].pc \in {"awaitRefetch", "done"} =>
         tick[t].refetches =
           (IF ~tick[t].before /\ tick[t].isHealthy THEN 1 ELSE 0)

C7_FailedRefetchKeeps ==
  \A t \in TickSlots :
    (tick[t].pc = "awaitRefetch" /\ tick'[t].pc = "done"
       /\ ~tick'[t].refetchOk) =>
      (isSpringReady' = isSpringReady /\ springMetadata' = springMetadata)

Taken(urlPattern, servlet) ==
  \/ MappingsAt(servletMappings, urlPattern) # {}
  \/ \E e \in servletsByName : e.servletName = ServletNameOf(servlet)

C11_UniqueIndices ==
  /\ \A i, j \in 1..Len(servletMappings) :
       i # j => /\ servletMappings[i].urlPattern # servletMappings[j].urlPattern
                /\ servletMappings[i].servletName # servletMappings[j].servletName
  /\ servletsByName =
       {[servletName |-> servletMappings[i].servletName,
         urlPattern  |-> servletMappings[i].urlPattern] :
          i \in 1..Len(servletMappings)}

\* a registerServlet call that threw before its first await
C11_FailedRegisterAddsNothing ==
  (lc.pc = "done" /\ lc'.op = "register" /\ lc'.pc = "done"
     /\ lc'.result = "error") =>
    /\ lc'.log = <<>>
    /\ \E s \in Servlets : Taken(lc'.arg, s)
    /\ UNCHANGED <<servletMappings, servletsByName, config, life>>

\* C11: no two registered servlets share a url pattern or a servlet name;
\* registerServlet with a taken url pattern or a taken name fails, adds
\* nothing to servletMappings or servletsByName and calls no init.
C11_UniquePrefixAndName ==
  []C11_UniqueIndices /\ [][C11_FailedRegisterAddsNothing]_vars

\* a registerServlet refused for its name alone: its url pattern is free
C11_Witness ==
  /\ lc.op = "register" /\ lc.pc = "done" /\ lc.result = "error"
  /\ lc.failed = {} /\ lc.log = <<>>
  /\ MappingsAt(servletMappings, lc.arg) = {}
  /\ Len(servletMappings) = 1
  /\ isStarted

\* C12: unregisterServlet on a mapped url pattern calls destroy, and once it
\* has returned neither servletMappings nor servletsByName holds the servlet;
\* on an unmapped url pattern it fails.
C12_UnregisterRemovesBoth ==
  (lc.op = "unregister" /\ lc.pc = "done") =>
    IF lc.log = <<>>
    THEN lc.result = "error"
    ELSE /\ MappingsAt(servletMappings, lc.arg) = {}
         /\ ~\E e \in servletsByName : e.servletName = ServletNameOf(lc.log[1])
         /\ ~\E i \in 1..Len(servletMappings) :
              servletMappings[i].servlet = lc.log[1]

\* p is url up to its query string, character for character
RawPathOf(p, url) ==
  \E k \in 0..Len(url) :
    /\ p = SubSeq(url, 1, k)
    /\ \A j \in 1..k : url[j] # "?"
    /\ k = Len(url) \/ url[k + 1] = "?"

\* no registered route has the method of request r and matches its raw path
NoRouteFor(r) ==
  \A i \in 1..Len(routes) :
    ~(routes[i].method = r.method
        /\ \E p \in {SubSeq(r.url, 1, k) : k \in 0..Len(r.url)} :
             RawPathOf(p, r.url) /\ match(routes[i], p).matched)

Is404Response(r) ==
  /\ r.status = 404
  /\ r.body.method = r.method
  /\ RawPathOf(r.body.path, r.url)

\* every inbound request goes to the container first, the router is called
\* exactly when the container returned false, and never both
C13_RouterIffNotHandled ==
  /\ sreq.pc # "idle" => /\ Len(sreq.offered) >= 1
                         /\ sreq.offered[1] = "container"
  /\ sreq.pc = "container" => rres = NoResult
  /\ sreq.pc \in {"router", "done"} =>
       /\ (\E i \in DOMAIN sreq.offered : sreq.offered[i] = "router")
            <=> sreq.servletHandled = "notHandled"
       /\ sreq.servletHandled # "notHandled" => rres.pc = "idle"
       /\ ~(sreq.serviced > 0 /\ rres.pc # "idle")
  /\ ServerBusy => isStarted
  /\ (sreq.pc = "container" /\ Candidates(creq[1].path) = {}) =>
       /\ creq[1].pc = "done" /\ creq[1].result = "notHandled"
       /\ creq[1].servlet = NoServlet /\ creq[1].serviced = 0

\* the container's part of a request whose path no url pattern matches
\* touches no servlet and no counter
C13_NoMatchInvokesNothing ==
  (sreq.pc # "container" /\ sreq'.pc = "container"
     /\ Candidates(RequestPath(sreq'.url)) = {}) =>
    /\ UNCHANGED <<servletMappings, totalRequests, config, life>>
    /\ creq'[1].result = "notHandled"

\* C13: every inbound request goes to the ServletContainer first; the Router
\* is called exactly when the container returned false, so no request has
\* both a servlet's service and the router run for it; and a request whose
\* path matches no registered url pattern comes back from the container as
\* not handled, at once, with no servlet selected, initialized or serviced.
C13_ContainerFirst ==
  []C13_RouterIffNotHandled /\ [][C13_NoMatchInvokesNothing]_vars

\* a request for a path that a servlet's url pattern and a route both match
\* was answered by the servlet and never reached the router
C13_Witness ==
  /\ sreq.pc = "done" /\ sreq.servletHandled = "handled"
  /\ sreq.serviced = 1 /\ sreq.offered = <<"container">>
  /\ rres = NoResult
  /\ findRoute(routes, sreq.method, RequestPath(sreq.url)).found

\* a path that lies under a base path: the base, a separator, and more
UnderPrefix(path, base) == StartsWith(path, Append(base, "/"))

\* C20: an identical pattern matches; a pattern ending in /** matches every
\* path under its prefix; a pattern ending in /* matches a path with exactly
\* one further segment under its prefix and no deeper path.
C20_WildcardMatching ==
  mcall.pc = "done" =>
    LET pattern == mcall.pattern
        path    == mcall.path
    IN /\ pattern = path => mcall.result
       /\ EndsWith(pattern, <<"/", "*", "*">>)
            /\ UnderPrefix(path, DropLast(pattern, 3)) => mcall.result
       /\ EndsWith(pattern, <<"/", "*">>) /\ pattern # path
            /\ UnderPrefix(path, DropLast(pattern, 2)) =>
            LET segments == SliceFrom(path, Len(pattern) - 1)
            IN /\ segments # <<>> /\ ~Includes(segments, "/") => mcall.result
               /\ Includes(segments, "/") => ~mcall.result

\* the status the upstream answered with
UpstreamStatus == IF preq.upstream = "200" THEN 200 ELSE 404

HopHeaders == {"connection", "transfer-encoding", "content-encoding",
               "content-length"}

\* the status and the headers of an upstream answer reach the client
C21_StatusAndHeadersCopied ==
  (preq.pc = "done" /\ preq.upstream \in {"200", "404"}) =>
    /\ preq.readyAtEntry
    /\ preq.status = UpstreamStatus
    /\ preq.headers = preq.answer.headers \ HopHeaders

\* C21: when the bridge is ready and the upstream answers, the client gets
\* the upstream's status code, the upstream's body unchanged, and every
\* upstream header except connection, transfer-encoding, content-encoding
\* and content-length.
C21_ProxyCopiesAnswer ==
  (preq.pc = "done" /\ preq.upstream \in {"200", "404"}) =>
    /\ preq.readyAtEntry
    /\ preq.status = UpstreamStatus
    /\ preq.headers = preq.answer.headers \ HopHeaders
    /\ preq.body = Flatten(preq.answer.chunks)

\* after stop() no interval callback starts
C22_NoTickStartsAfterStop ==
  phase = "stopped" =>
    \A t \in TickSlots :
      ~(tick[t].pc \in {"idle", "done"} /\ tick'[t].pc = "awaitProbe")

\* the step in which stop() runs ends with the flag false, the metadata null
\* and the timer cleared
C22_StopClears ==
  (phase # "stopped" /\ phase' = "stopped") =>
    (~isSpringReady' /\ springMetadata' = NoDoc /\ ~healthCheckInterval')

ProxySettles ==
  \/ \E ok \in BOOLEAN : proxyBodyDone(ok)
  \/ \E o \in UpstreamOutcomes : proxyUpstreamDone(o, PlainAnswer)

\* C23: a proxyRequest issued while the bridge is ready never stays pending
\* forever: as long as it has not answered the client, an upstream answer,
\* an upstream error or the timeout is still to come and ends it (with the
\* upstream's answer or 502).
C23_ForwardNeverStuck ==
  (preq.readyAtEntry /\ preq.pc \notin {"idle", "done"}) => ENABLED ProxySettles

\* the fetch outcomes that deliver the mappings document
DocumentFetched(outcome) == outcome \in Docs

\* what one finished fetch may do to the snapshot: a delivered document
\* replaces every entry, anything else leaves the snapshot as it was
SnapshotAfterFetch(outcome) ==
  IF DocumentFetched(outcome)
  THEN Mappings(springMetadata') = Mappings(outcome) /\ springMetadata' # NoDoc
  ELSE springMetadata' = springMetadata

C24_FetchReplacesOrKeeps ==
  /\ (bstart.pc = "awaitMetadata" /\ bstart'.pc = "done") =>
       SnapshotAfterFetch(bstart'.fetch)
  /\ \A t \in TickSlots :
       (tick[t].pc = "awaitRefetch" /\ tick'[t].pc = "done") =>
         SnapshotAfterFetch(tick'[t].fetch)

C24_OnlyFetchOrStopChanges ==
  springMetadata' # springMetadata =>
    \/ bstart.pc = "awaitMetadata" /\ bstart'.pc = "done"
    \/ \E t \in TickSlots : tick[t].pc = "awaitRefetch" /\ tick'[t].pc = "done"
    \/ phase # "stopped" /\ phase' = "stopped"

\* C24: springMetadata is always the complete result of the most recent
\* successful fetch or what was held before it: a fetch that delivers the
\* document replaces all mappings at once, and a fetch whose document is
\* unreachable or malformed leaves springMetadata unchanged.
C24_SnapshotAtomic ==
  [][C24_FetchReplacesOrKeeps]_vars /\ [][C24_OnlyFetchOrStopChanges]_vars

\* the positions of a template's parameter segments
ParamPositions(tsegs) == {i \in 1..Len(tsegs) : tsegs[i][1] = COLON}

\* the name/value pairs a template's parameters take from a path of as many
\* segments, in template order
RECURSIVE ExpectedParams(_, _)
ExpectedParams(tsegs, psegs) ==
  IF tsegs = <<>> THEN <<>>
  ELSE (IF Head(tsegs)[1] = COLON
        THEN << <<Tail(Head(tsegs)), Head(psegs)>> >>
        ELSE <<>>)
       \o ExpectedParams(Tail(tsegs), Tail(psegs))

\* C25: for a template with n >= 1 named parameters, wherever they stand,
\* and a path that matches it, match returns exactly the n pairs of the
\* template's parameter names with the path's segments at their positions.
C25_ParamsByName ==
  (rmatch.pc = "done" /\ rmatch.result.matched
     /\ ParamPositions(rmatch.tsegs) # {}
     /\ Len(rmatch.psegs) = Len(rmatch.tsegs)) =>
    rmatch.result.params = ExpectedParams(rmatch.tsegs, rmatch.psegs)

\* what does hold: the values are the path's segments at the parameter
\* positions, in template order
C25_ValuesBySegment ==
  (rmatch.pc = "done" /\ rmatch.result.matched
     /\ Len(rmatch.psegs) = Len(rmatch.tsegs)) =>
    LET e == ExpectedParams(rmatch.tsegs, rmatch.psegs)
    IN /\ Len(rmatch.result.params) = Len(e)
       /\ \A i \in 1..Len(e) : rmatch.result.params[i][2] = e[i][2]

\* C26: a path matches a template only if it has as many segments, equal
\* literal segments and non-empty parameter segments; a prefix, an extension
\* or a trailing slash gives null.
C26_AnchoredSegments ==
  (rmatch.pc = "done" /\ rmatch.result.matched) =>
    /\ Len(rmatch.psegs) = Len(rmatch.tsegs)
    /\ \A i \in 1..Len(rmatch.tsegs) :
         IF rmatch.tsegs[i][1] = COLON
         THEN rmatch.psegs[i] # <<>>
         ELSE rmatch.psegs[i] = rmatch.tsegs[i]

\* requestCount of the mapping of a servlet, 0 when it has none
RequestCountOf(maps, servlet) ==
  LET is == {i \in 1..Len(maps) : maps[i].servlet = servlet}
  IN IF is = {} THEN 0 ELSE maps[CHOOSE i \in is : TRUE].requestCount

\* a matched request has its servlet's service called once, and only on a
\* servlet whose init has completed
C27_ServiceOnceAfterInit ==
  \A k \in Slots :
    /\ creq[k].serviced <= 1
    /\ creq[k].serviced = 1 => life[creq[k].servlet].initDone
    /\ (creq[k].pc = "done" /\ creq[k].servlet # NoServlet
          /\ life[creq[k].servlet].initDone) => creq[k].serviced = 1

\* the step that matches a request adds one to the mapping's requestCount
\* and one to totalRequests, and nothing to any other mapping
C27_CountedOnce ==
  \A k \in Slots :
    (creq[k].pc \in {"idle", "done"} /\ creq'[k].pc # creq[k].pc
       /\ creq'[k].servlet # NoServlet) =>
      /\ totalRequests' = totalRequests + 1
      /\ \A x \in Servlets :
           RequestCountOf(servletMappings', x) =
             RequestCountOf(servletMappings, x)
               + (IF x = creq'[k].servlet THEN 1 ELSE 0)

\* C27: on a matched request to a started container handleRequest first
\* initializes a servlet that is not yet initialized, then calls its service
\* exactly once, and adds exactly one to the mapping's requestCount and to
\* totalRequests.
C27_LazyInitThenService ==
  []C27_ServiceOnceAfterInit /\ [][C27_CountedOnce]_vars

\* C28: a registerServlet on a started container that completes has called
\* the servlet's init and seen it complete, with or without a loadOnStartup;
\* while that init is pending the call is not complete.
C28_RunningRegisterInits ==
  (lc.op = "register" /\ isStarted) =>
    /\ lc.pc = "awaitInit" => (lc.cur # NoServlet /\ lc.log = <<lc.cur>>)
    /\ (lc.pc = "done" /\ lc.result = "ok") =>
         /\ Len(lc.log) = 1
         /\ life[lc.log[1]].initDone
         /\ \E i \in 1..Len(servletMappings) :
              /\ servletMappings[i].urlPattern = lc.arg
              /\ servletMappings[i].servlet = lc.log[1]

\* a servlet without loadOnStartup was registered on a started container and
\* is initialized when the call is complete
C28_Witness ==
  /\ lc.op = "register" /\ lc.pc = "done" /\ lc.result = "ok" /\ isStarted
  /\ \E i \in 1..Len(servletMappings) :
       /\ servletMappings[i].urlPattern = lc.arg
       /\ servletMappings[i].loadOnStartup = <<>>
       /\ life[servletMappings[i].servlet].initDone

\* C29: when the init or the service of the matched servlet throws,
\* handleRequest returns true (the router is not called) after answering
\* 500 with a body that names the servlet, or after writing nothing more
\* when the servlet had already sent its response.
C29_ServletErrorIs500 ==
  /\ \A k \in Slots :
       creq[k].threw =>
         /\ creq[k].pc = "done" /\ creq[k].result = "handled"
         /\ creq[k].written = 1
         /\ \/ creq[k].status = 500 /\ creq[k].errorServlet = creq[k].name
                 /\ creq[k].name # "-"
            \/ creq[k].status = 200 /\ creq[k].errorServlet = "-"
                 /\ creq[k].serviced = 1
         /\ creq[k].serviced = 0 => creq[k].status = 500
  /\ (creq[1].threw /\ sreq.pc = "done") =>
       /\ sreq.servletHandled = "handled"
       /\ sreq.offered = <<"container">>
       /\ rres = NoResult

\* a request whose servlet threw after it had sent its response is done:
\* handled, the servlet's 200 kept, the router never called
C29_Witness ==
  /\ sreq.pc = "done" /\ creq[1].threw
  /\ creq[1].status = 200 /\ creq[1].written = 1 /\ creq[1].serviced = 1

\* a request whose servlet's init threw is done with the 500 naming it
C29_InitWitness ==
  /\ sreq.pc = "done" /\ creq[1].threw
  /\ creq[1].status = 500 /\ creq[1].serviced = 0
  /\ creq[1].errorServlet = creq[1].name

\* C30: start() on a started container throws and changes nothing: the
\* container stays started, no servlet's init is called, and no mapping,
\* counter or servlet state changes.
C30_StartWhenRunningFails ==
  /\ [][(isStarted /\ lc.pc = "done" /\ lc'.op = "start" /\ lc' # lc) =>
          /\ lc'.pc = "done" /\ lc'.result = "error"
          /\ lc'.log = <<>> /\ lc'.failed = {}
          /\ isStarted'
          /\ UNCHANGED <<config, life, servletMappings, servletsByName,
                         totalRequests>>]_vars
  /\ [](lc.op = "start" /\ lc.pc = "done" /\ lc.result = "error"
          /\ lc.failed = {} => isStarted)

\* start() has thrown on a started container that holds a load-on-startup
\* servlet
C30_Witness ==
  /\ lc.op = "start" /\ lc.pc = "done" /\ lc.result = "error"
  /\ lc.failed = {} /\ lc.log = <<>>
  /\ isStarted
  /\ startupServlets(servletMappings) # <<>>

\* a probe outcome that is a status of the 2xx range
Status2xx(outcome) == outcome \in {"200", "204"}

\* C31 as stated: a probe reports healthy exactly when the health endpoint
\* answered with a 2xx status, in waitForSpring and in the interval callback.
C31_HealthyIff2xx ==
  [][\A o \in ProbeOutcomes :
       /\ startProbeDone(o) =>
            (Status2xx(o) <=> bstart'.healthy = bstart.healthy + 1)
       /\ \A t \in TickSlots :
            tickProbeDone(t, o) => (tick'[t].isHealthy <=> Status2xx(o))]_vars

\* what the code does: healthy exactly when the status is 200
C31_HealthyIff200 ==
  [][\A o \in ProbeOutcomes :
       /\ startProbeDone(o) =>
            (o = "200" <=> bstart'.healthy = bstart.healthy + 1)
       /\ \A t \in TickSlots :
            tickProbeDone(t, o) => (tick'[t].isHealthy <=> o = "200")]_vars

\* springBridge.start() of the bridge built by setupSpringBridge has failed
BridgeStartFailed ==
  sstart = "done" /\ bstart.pc = "done" /\ bstart.result # "ok"

ProxyRoutes == {i \in 1..Len(routes) : IsProxyHandler(routes[i].handler)}

\* C32: when springBridge.start() fails, Server.start goes on: it holds no
\* bridge, has registered no proxy route, listens (or is about to), and
\* every request is answered by a servlet, a local route or the 404 handler
\* without any forward.
C32_BridgeFailureNotFatal ==
  BridgeStartFailed =>
    /\ ~springBridge /\ ~springEnabled
    /\ ProxyRoutes = {}
    /\ ~healthCheckInterval
    /\ httpServer \/ ENABLED listen
    /\ preq = IdleProxy
    /\ sreq.pc = "done" =>
         \/ sreq.servletHandled = "handled" /\ sreq.serviced = 1
         \/ sreq.servletHandled = "notHandled"
              /\ sreq.status \in {200, 404}
              /\ rres.pc = "done" =>
                   sreq.status = (IF rres.invoked # <<>> THEN 200 ELSE 404)

\* after a failed bridge start the server listens and a local route has
\* answered a request
C32_Witness ==
  /\ BridgeStartFailed /\ httpServer
  /\ sreq.pc = "done" /\ sreq.status = 200 /\ rres.invoked # <<>>

\* after a failed bridge start the server listens and a servlet has answered
C32_ServletWitness ==
  /\ BridgeStartFailed /\ httpServer
  /\ sreq.pc = "done" /\ sreq.servletHandled = "handled" /\ sreq.serviced = 1

\* the routes, among those registered when the routing step ran, that match
\* the request of rres: the local ones and the proxy ones
LocalMatches ==
  {i \in 1..rres.nroutes :
     /\ ~IsProxyHandler(routes[i].handler)
     /\ routes[i].method = rres.method /\ match(routes[i], rres.path).matched}

ProxyMatches ==
  {i \in 1..rres.nroutes :
     /\ IsProxyHandler(routes[i].handler)
     /\ routes[i].method = rres.method /\ match(routes[i], rres.path).matched}

LocalFirst ==
  LocalMatches # {} /\ (ProxyMatches = {} \/ Min(LocalMatches) < Min(ProxyMatches))

C33_ProxyWitness ==
  /\ sreq.pc = "done" /\ rres.routed
  /\ ProxyMatches # {} /\ rres.invoked = <<routes[Min(ProxyMatches)].handler>>
  /\ preq.pc = "done" /\ preq.upstreamCalls = 1
  /\ sreq.status = 200

\* C34 as stated: whenever service is called on a servlet, under any
\* interleaving of requests and registrations, that servlet's init has
\* completed.
C34_ServiceAfterInitCompleted ==
  [][\A k \in Slots :
       (creq'[k].pc = "awaitService" /\ creq[k].pc # "awaitService") =>
         life'[creq'[k].servlet].initDone]_vars

\* C35 as stated: once stop() has returned, isSpringReady is false and
\* springMetadata is null, whatever interval callback was in flight.
C35_StoppedStaysCleared ==
  phase = "stopped" => (~isSpringReady /\ springMetadata = NoDoc)

\* what holds: after stop() no new callback starts, and only a callback that
\* was already in flight changes the two fields
C35_OnlyInFlightTicksWrite ==
  [][(phase = "stopped"
        /\ (isSpringReady' # isSpringReady \/ springMetadata' # springMetadata))
       => \E t \in TickSlots :
            tick[t].pc \in {"awaitProbe", "awaitRefetch"} /\ tick'[t] # tick[t]]_vars

\* C36 as stated: a start() that has thrown leaves the bridge not ready,
\* without metadata and without an interval timer.
C36_FailedStartNotReady ==
  (bstart.pc = "done" /\ bstart.result # "ok") =>
    /\ ~isSpringReady
    /\ springMetadata = NoDoc
    /\ ~healthCheckInterval

\* what holds: no metadata and no timer after a failed start(), and not
\* ready when every probe was unhealthy
C36_FailedStartNoSnapshot ==
  (bstart.pc = "done" /\ bstart.result # "ok") =>
    /\ springMetadata = NoDoc
    /\ ~healthCheckInterval
    /\ bstart.result = "unavailable" => ~isSpringReady

\* a registerServlet call that has thrown
RegisterFailed == lc.op = "register" /\ lc.pc = "done" /\ lc.result = "error"

\* what holds: a registerServlet refused for a taken url pattern or servlet
\* name changes nothing
C37_RefusedRegisterChangesNothing ==
  [][(lc.pc = "done" /\ lc'.op = "register" /\ lc'.pc = "done"
        /\ lc'.result = "error" /\ lc' # lc) =>
       UNCHANGED <<servletMappings, servletsByName, config, life, isStarted,
                   totalRequests>>]_vars

\* the servlet of the failed call is in neither map
C37_FailedServletAbsent ==
  RegisterFailed =>
    \A s \in lc.failed :
      /\ \A i \in 1..Len(servletMappings) : servletMappings[i].servlet # s
      /\ \A e \in servletsByName : e.servletName # ServletNameOf(s)
      /\ MappingsAt(servletMappings, lc.arg) = {}

\* C37 as stated: a registerServlet that fails leaves the container
\* unchanged; when init fails on a started container the servlet is in
\* neither map and its url pattern and name are free.
C37_FailedRegisterLeavesNothing ==
  C37_RefusedRegisterChangesNothing /\ []C37_FailedServletAbsent

\* this step calls init on servlet s: from start() or registerServlet(), or
\* from handleRequest()
InitInvoked(s) ==
  \/ /\ lc'.pc = "awaitInit" /\ lc'.cur = s
     /\ lc.pc # "awaitInit" \/ lc.cur # s
  \/ \E k \in Slots :
       /\ creq'[k].pc = "awaitInit" /\ creq'[k].servlet = s
       /\ creq[k].pc # "awaitInit"

\* C38 as stated: init is never called on a servlet whose init has completed
\* and that has not been destroyed since.
C38_NoSecondInit ==
  [][\A s \in Servlets : InitInvoked(s) => ~life[s].initDone]_vars

\* what holds: handleRequest and registerServlet never call init a second
\* time
C38_RequestsInitOnce ==
  [][\A s \in Servlets :
       (InitInvoked(s) /\ lc'.op # "start") => ~life[s].initDone]_vars

\* C39 as stated: when handle has returned, the routing step it started
\* (the matched handler, or the 404 handler) has returned or thrown.
C39_HandleAwaitsHandler ==
  rres.pc = "done" =>
    \A i \in DOMAIN rres.frames :
      rres.chain[i].kind = "routing" =>
        rres.frames[i].st \in {"new", "ret", "thrown"}

\* what holds: without middleware handle returns after the handler
C39_NoMiddlewareAwaitsHandler ==
  (rres.pc = "done" /\ Len(rres.chain) = 1) =>
    rres.frames[1].st \in {"ret", "thrown"}

\* C40 as stated, for the servlet paths: Response.send is called at most
\* once per request, whatever the servlet's do* method and the error
\* conversions of HttpServlet.service and of the container do.
C40_OneResponsePerRequest ==
  \A k \in Slots : creq[k].written <= 1

\* what holds: the response on the wire is the first one sent
C40_FirstResponseStands ==
  [][\A k \in Slots :
       (creq[k].headersSent /\ creq'[k].pc # "idle" /\ creq[k].pc # "done") =>
         creq'[k].status = creq[k].status]_vars

MiddlewareFrames(r) ==
  {i \in DOMAIN r.frames : r.chain[i].kind # "routing"}

\* C15: once a middleware has returned without calling next(), no later
\* middleware has started, the routing step has not run, and neither a route
\* handler nor handle404 was invoked.
C15_NoNextHaltsChain ==
  \A i \in MiddlewareFrames(rres) :
    (rres.frames[i].st = "ret" /\ rres.frames[i].nextCalls = 0) =>
      /\ \A j \in DOMAIN rres.frames : j > i => rres.frames[j].st = "new"
      /\ Len(rres.started) = i
      /\ ~rres.routed /\ rres.invoked = <<>>
      /\ \A k \in 1..Len(rres.sentBy) : rres.sentBy[k] \notin {"handler", "404"}

\* the second of two middlewares answered without next(); the matching
\* route was not dispatched
C15_Witness ==
  /\ Settled(rres)
  /\ Len(rres.chain) = 3
  /\ rres.frames[1].nextCalled
  /\ rres.frames[2].st = "ret" /\ rres.frames[2].nextCalls = 0
  /\ rres.status = 403
  /\ ~NoRouteFor(rres)

\* C16: the second next() of a middleware throws, and every function of
\* the chain is started at most once, the routing step included.
C16_SecondNextThrows ==
  /\ \A i \in DOMAIN rres.frames :
       /\ rres.frames[i].nextCalls <= 2
       /\ rres.frames[i].nextCalls = 2 => rres.frames[i].st = "thrown"
  /\ rres.nextErrors =
       Cardinality({i \in DOMAIN rres.frames : rres.frames[i].nextCalls = 2})
  /\ \A a, b \in 1..Len(rres.started) :
       a # b => rres.started[a] # rres.started[b]
  /\ rres.routings <= 1 /\ Len(rres.invoked) <= 1

\* a middleware called next() twice; the handler behind it ran once
C16_Witness ==
  /\ Settled(rres)
  /\ \E i \in DOMAIN rres.frames : rres.frames[i].nextCalls = 2
  /\ rres.nextErrors = 1
  /\ rres.routings = 1 /\ Len(rres.invoked) = 1

\* C17: the functions of the chain start in registration order, each one
\* only after the one before it called next(), and the routing step only
\* after the last middleware called next().
C17_RegistrationOrder ==
  /\ \A k \in 1..Len(rres.started) :
       /\ rres.started[k] = rres.chain[k].id
       /\ k \in MiddlewareFrames(rres) => rres.started[k] = k
       /\ rres.frames[k].st # "new"
       /\ \A j \in 1..(k - 1) : rres.frames[j].nextCalled
  /\ \A i \in DOMAIN rres.frames :
       rres.frames[i].st # "new" => i <= Len(rres.started)
  /\ rres.routed =>
       \A i \in MiddlewareFrames(rres) : rres.frames[i].nextCalled

\* two middlewares, the first one asynchronous, then the routing step
C17_Witness ==
  /\ Settled(rres)
  /\ Len(rres.chain) = 3
  /\ rres.chain[1].kind = "awaitNext"
  /\ rres.started = <<1, 2, 0>>
  /\ rres.routed

\* C18: every error thrown during Router.handle is caught by handle, which
\* answers 500 unless a response was sent before.
C18_ErrorsCaughtByHandle ==
  (Settled(rres) /\ rres.threw > 0) =>
    /\ rres.caught = rres.threw
    /\ rres.unhandled = 0
    /\ rres.finished
    /\ \A k \in 1..Len(rres.sentBy) : rres.sentBy[k] = "500" => k = 1

\* C19: a request whose dispatch is over (handle has returned, nothing of
\* its chain is pending) has received a response, also when something threw.
C19_EveryRequestAnswered ==
  (Settled(rres) /\ (rres.routed \/ rres.threw > 0)) =>
    Len(rres.sentBy) > 0

=============================================================================
